---------------------------- MODULE Spec2Model ----------------------------
(***************************************************************************)
(* MEDI-360: the rule-based symptom classifier of                          *)
(* medi360-backend/services/medicalAI.service.js (class MedicalAIService). *)
(*                                                                         *)
(* A JavaScript string is a TLA+ string; includes, toLowerCase and trim    *)
(* are computed character by character.  One call of analyzeSymptoms is    *)
(* one behaviour: Init draws the arguments, and each action is one of the  *)
(* calls analyzeSymptoms makes, in the order it makes them.                *)
(***************************************************************************)
EXTENDS Integers, Sequences, FiniteSets, TLC

VARIABLES
    symptoms,            \* argument: the symptom list as the caller passed it
    healthProfile,       \* argument: the health profile, or null
    pc,                  \* the position inside analyzeSymptoms
    normalizedSymptoms,  \* const normalizedSymptoms
    emergencyDetected,   \* const emergencyDetected
    severityScore,       \* let severityScore of calculateSeverity (-1: never run)
    severity,            \* const severity ("": not computed)
    possibleConditions,  \* const possibleConditions
    recommendations,     \* const recommendations
    result,              \* the value analyzeSymptoms returned
    response,            \* the text generateResponse returned for that value
    staticTables,        \* the static fields symptomDatabase, emergencySymptoms
    callArgs,            \* the arguments as the caller passed them to this call
    observed,            \* (arguments, result) of the calls that have returned
    calls,               \* the number of calls made so far
    env,                 \* process.env of the server
    users,               \* the User collection
    sessions,            \* the ChatSession collection
    profiles,            \* the HealthProfile collection
    requests,            \* the requests in flight: req, res and the handler's locals
    writes,              \* the documents each request has written so far
    chatPage,            \* the state of the Chat page component
    apiCalls             \* the calls the Chat page has made through chatAPI

\* what the callers of analyzeSymptoms see across calls
callVars == <<staticTables, callArgs, observed, calls>>

\* the arguments, the locals and the result of a call of analyzeSymptoms
serviceVars == <<symptoms, healthProfile, pc, normalizedSymptoms,
                 emergencyDetected, severityScore, severity, possibleConditions,
                 recommendations, result, response, callVars>>

\* the state of the request handlers
handlerVars == <<env, users, sessions, profiles, requests, writes>>

\* the Chat page and its calls of the API
pageVars == <<chatPage, apiCalls>>

vars == <<symptoms, healthProfile, pc, normalizedSymptoms, emergencyDetected,
          severityScore, severity, possibleConditions, recommendations, result,
          response, callVars, handlerVars, pageVars>>

-----------------------------------------------------------------------------
(* Bounds of the model *)

\* the longest symptom list drawn
MaxSymptoms == 3

-----------------------------------------------------------------------------
(* JavaScript strings *)

Min(a, b) == IF a < b THEN a ELSE b

CharAt(s, i) == SubSeq(s, i, i)

\* String.prototype.includes: k occurs in s at some position ("" occurs in
\* every string)
includes(s, k) ==
    \E i \in 1..(Len(s) - Len(k) + 1) : SubSeq(s, i, i + Len(k) - 1) = k

\* the lower-case letter of each upper-case letter
LowerOf == [c \in {"A","B","C","D","E","F","G","H","I","J","K","L","M",
                   "N","O","P","Q","R","S","T","U","V","W","X","Y","Z"} |->
    CASE c = "A" -> "a" [] c = "B" -> "b" [] c = "C" -> "c" [] c = "D" -> "d"
      [] c = "E" -> "e" [] c = "F" -> "f" [] c = "G" -> "g" [] c = "H" -> "h"
      [] c = "I" -> "i" [] c = "J" -> "j" [] c = "K" -> "k" [] c = "L" -> "l"
      [] c = "M" -> "m" [] c = "N" -> "n" [] c = "O" -> "o" [] c = "P" -> "p"
      [] c = "Q" -> "q" [] c = "R" -> "r" [] c = "S" -> "s" [] c = "T" -> "t"
      [] c = "U" -> "u" [] c = "V" -> "v" [] c = "W" -> "w" [] c = "X" -> "x"
      [] c = "Y" -> "y" [] c = "Z" -> "z"]

lowerChar(c) == IF c \in DOMAIN LowerOf THEN LowerOf[c] ELSE c

\* String.prototype.toUpperCase, by the same table read backwards
upperChar(c) ==
    IF \E u \in DOMAIN LowerOf : LowerOf[u] = c
    THEN CHOOSE u \in DOMAIN LowerOf : LowerOf[u] = c
    ELSE c

RECURSIVE toUpperCase(_)
toUpperCase(s) ==
    IF Len(s) = 0 THEN ""
    ELSE upperChar(CharAt(s, 1)) \o toUpperCase(SubSeq(s, 2, Len(s)))

\* String.prototype.toLowerCase: every character replaced, the string taken
\* by halves
RECURSIVE toLowerCase(_)
toLowerCase(s) ==
    IF Len(s) = 0 THEN ""
    ELSE IF Len(s) = 1 THEN lowerChar(s)
    ELSE toLowerCase(SubSeq(s, 1, Len(s) \div 2))
         \o toLowerCase(SubSeq(s, Len(s) \div 2 + 1, Len(s)))

WhiteSpace == {" ", "\t", "\n", "\r"}

\* String.prototype.trim: white space is removed from both ends only
RECURSIVE trimStart(_)
trimStart(s) ==
    IF Len(s) > 0 /\ CharAt(s, 1) \in WhiteSpace
    THEN trimStart(SubSeq(s, 2, Len(s)))
    ELSE s

RECURSIVE trimEnd(_)
trimEnd(s) ==
    IF Len(s) > 0 /\ CharAt(s, Len(s)) \in WhiteSpace
    THEN trimEnd(SubSeq(s, 1, Len(s) - 1))
    ELSE s

trim(s) == trimEnd(trimStart(s))

-----------------------------------------------------------------------------
(* The static tables of MedicalAIService *)

\* static symptomDatabase, as the sequence of its entries in declaration
\* order: Object.entries iterates string keys in the order they were added
symptomDatabase == <<
    [key |-> "chest pain", categories |-> <<"cardiovascular">>,
     severity |-> "high", emergency |-> TRUE,
     relatedConditions |-> <<"heart attack", "angina", "pulmonary embolism">>],
    [key |-> "shortness of breath",
     categories |-> <<"respiratory", "cardiovascular">>,
     severity |-> "moderate", emergency |-> FALSE,
     relatedConditions |-> <<"asthma", "COPD", "anxiety">>],
    [key |-> "irregular heartbeat", categories |-> <<"cardiovascular">>,
     severity |-> "moderate", emergency |-> FALSE,
     relatedConditions |-> <<"arrhythmia", "atrial fibrillation">>],
    [key |-> "severe headache", categories |-> <<"neurological">>,
     severity |-> "moderate", emergency |-> FALSE,
     relatedConditions |-> <<"migraine", "tension headache", "cluster headache">>],
    [key |-> "sudden confusion", categories |-> <<"neurological">>,
     severity |-> "high", emergency |-> TRUE,
     relatedConditions |-> <<"stroke", "seizure", "hypoglycemia">>],
    [key |-> "dizziness", categories |-> <<"neurological", "cardiovascular">>,
     severity |-> "low", emergency |-> FALSE,
     relatedConditions |-> <<"vertigo", "low blood pressure", "dehydration">>],
    [key |-> "cough", categories |-> <<"respiratory">>,
     severity |-> "low", emergency |-> FALSE,
     relatedConditions |-> <<"common cold", "bronchitis", "pneumonia">>],
    [key |-> "fever", categories |-> <<"general", "infection">>,
     severity |-> "moderate", emergency |-> FALSE,
     relatedConditions |-> <<"infection", "flu", "viral illness">>],
    [key |-> "difficulty breathing", categories |-> <<"respiratory">>,
     severity |-> "high", emergency |-> TRUE,
     relatedConditions |-> <<"asthma attack", "pneumonia", "allergic reaction">>],
    [key |-> "nausea", categories |-> <<"gastrointestinal">>,
     severity |-> "low", emergency |-> FALSE,
     relatedConditions |-> <<"gastritis", "food poisoning", "pregnancy">>],
    [key |-> "abdominal pain", categories |-> <<"gastrointestinal">>,
     severity |-> "moderate", emergency |-> FALSE,
     relatedConditions |-> <<"gastritis", "appendicitis", "kidney stones">>],
    [key |-> "vomiting", categories |-> <<"gastrointestinal">>,
     severity |-> "moderate", emergency |-> FALSE,
     relatedConditions |-> <<"gastroenteritis", "food poisoning", "migraine">>],
    [key |-> "fatigue", categories |-> <<"general">>,
     severity |-> "low", emergency |-> FALSE,
     relatedConditions |-> <<"anemia", "depression", "sleep disorder">>],
    [key |-> "body aches", categories |-> <<"general">>,
     severity |-> "low", emergency |-> FALSE,
     relatedConditions |-> <<"flu", "viral infection", "fibromyalgia">>],
    [key |-> "loss of consciousness", categories |-> <<"neurological">>,
     severity |-> "emergency", emergency |-> TRUE,
     relatedConditions |-> <<"seizure", "stroke", "cardiac arrest">>] >>

\* static emergencySymptoms
emergencySymptoms == <<
    "chest pain",
    "difficulty breathing",
    "sudden confusion",
    "loss of consciousness",
    "severe bleeding",
    "stroke symptoms",
    "severe allergic reaction",
    "suicidal thoughts" >>

\* JavaScript's null (an absent health profile) and undefined (no value yet)
null == [type |-> "null"]
undefined == [type |-> "undefined"]

\* if (healthProfile)
truthy(v) == v.type = "object"

\* healthProfile.knownConditions && healthProfile.knownConditions.length > 0
hasKnownConditions(hp) ==
    "knownConditions" \in DOMAIN hp /\ Len(hp.knownConditions) > 0

\* healthProfile.currentMedications && healthProfile.currentMedications.length > 0
hasCurrentMedications(hp) ==
    "currentMedications" \in DOMAIN hp /\ Len(hp.currentMedications) > 0

\* healthProfile.age > 65 (undefined > 65 is false)
ageOver65(hp) == "age" \in DOMAIN hp /\ hp.age > 65

-----------------------------------------------------------------------------
(* The functions of MedicalAIService *)

\* symptoms.map(s => s.toLowerCase().trim())
normalize(syms) == [i \in 1..Len(syms) |-> trim(toLowerCase(syms[i]))]

\* checkEmergency looking at the first symptom only
checkEmergencyFirstOnly(syms) ==
    /\ Len(syms) > 0
    /\ \E e \in 1..Len(emergencySymptoms) : includes(syms[1], emergencySymptoms[e])

\* checkEmergency matching in both directions, as findSymptomData does
checkEmergencyBothWays(syms) ==
    \E i \in 1..Len(syms) :
        \E e \in 1..Len(emergencySymptoms) :
            \/ includes(syms[i], emergencySymptoms[e])
            \/ includes(emergencySymptoms[e], syms[i])

\* checkEmergency: some symptom includes some emergency keyword
checkEmergency(syms) ==
    \E i \in 1..Len(syms) :
        \E e \in 1..Len(emergencySymptoms) :
            includes(syms[i], emergencySymptoms[e])

\* The recommendations of generateEmergencyResponse.  The first string
\* starts with the siren emoji U+1F6A8 in the source, written (siren) here.
EmergencyRecommendations == <<
    "(siren) Call emergency services (108) immediately",
    "Do not attempt to drive yourself",
    "Stay calm and follow dispatcher instructions",
    "Have someone stay with you until help arrives",
    "If alone, unlock your front door for emergency responders" >>

generateEmergencyResponse(syms) ==
    [severity |-> "emergency",
     emergencyDetected |-> TRUE,
     identifiedSymptoms |-> syms,
     urgentAction |-> "CALL EMERGENCY SERVICES IMMEDIATELY",
     emergencyNumber |-> "108 (India) or local emergency number",
     recommendations |-> EmergencyRecommendations,
     disclaimer |-> "This is a medical emergency. Please seek immediate professional medical help."]

\* the test of findSymptomData's loop
keyMatches(symptom, key) == includes(symptom, key) \/ includes(key, symptom)

\* the loop that keeps the last entry whose key matches instead of returning
\* at the first
RECURSIVE findSymptomFromLast(_, _)
findSymptomFromLast(symptom, k) ==
    IF k > Len(symptomDatabase) THEN 0
    ELSE LET later == findSymptomFromLast(symptom, k + 1) IN
         IF later # 0 THEN later
         ELSE IF keyMatches(symptom, symptomDatabase[k].key) THEN k
         ELSE 0

\* The loop of findSymptomData from entry k on: the index of the first entry
\* whose key matches, 0 when the loop ends without one
RECURSIVE findSymptomFrom(_, _)
findSymptomFrom(symptom, k) ==
    IF k > Len(symptomDatabase) THEN 0
    ELSE IF keyMatches(symptom, symptomDatabase[k].key) THEN k
    ELSE findSymptomFrom(symptom, k + 1)

\* the index in symptomDatabase of the entry findSymptomData returns, 0 for null
findSymptomIndex(symptom) == findSymptomFrom(symptom, 1)

findSymptomData(symptom) ==
    LET k == findSymptomIndex(symptom) IN
    IF k = 0 THEN null ELSE symptomDatabase[k]

\* the callback with "severityScore = 3" for "severityScore += 3"
severityCallbackAssign(acc, symptom) ==
    LET symptomData == findSymptomData(symptom) IN
    IF symptomData = null THEN acc
    ELSE IF symptomData.severity = "emergency" THEN acc
    ELSE IF symptomData.severity = "high"
         THEN [maxSeverity |-> "high", severityScore |-> 3]
    ELSE IF symptomData.severity = "moderate"
         THEN [maxSeverity |-> IF acc.maxSeverity = "low" THEN "moderate"
                               ELSE acc.maxSeverity,
               severityScore |-> acc.severityScore + 2]
    ELSE [maxSeverity |-> acc.maxSeverity, severityScore |-> acc.severityScore + 1]

\* The callback of calculateSeverity's forEach, on the closure variables
\* acc = [maxSeverity, severityScore].  Its "return 'emergency'" returns from
\* the callback only: forEach discards the value and goes on with the next
\* symptom, and the closure variables are left as they were.
severityCallback(acc, symptom) ==
    LET symptomData == findSymptomData(symptom) IN
    IF symptomData = null THEN acc
    ELSE IF symptomData.severity = "emergency" THEN acc
    ELSE IF symptomData.severity = "high"
         THEN [maxSeverity |-> "high", severityScore |-> acc.severityScore + 3]
    ELSE IF symptomData.severity = "moderate"
         THEN [maxSeverity |-> IF acc.maxSeverity = "low" THEN "moderate"
                               ELSE acc.maxSeverity,
               severityScore |-> acc.severityScore + 2]
    ELSE [maxSeverity |-> acc.maxSeverity, severityScore |-> acc.severityScore + 1]

\* the loop over the symptoms with a phrase counted at its last occurrence only
RECURSIVE severityForEachDedup(_, _)
severityForEachDedup(acc, syms) ==
    IF Len(syms) = 0 THEN acc
    ELSE IF \E i \in 2..Len(syms) : syms[i] = Head(syms)
         THEN severityForEachDedup(acc, Tail(syms))
    ELSE severityForEachDedup(severityCallback(acc, Head(syms)), Tail(syms))

\* symptoms.forEach(...) of calculateSeverity, from maxSeverity = 'low' and
\* severityScore = 0
RECURSIVE severityForEach(_, _)
severityForEach(acc, syms) ==
    IF Len(syms) = 0 THEN acc
    ELSE severityForEach(severityCallback(acc, Head(syms)), Tail(syms))

\* the adjustment with known conditions counted 2
profileAdjustmentWeighted(hp) ==
    IF truthy(hp)
    THEN (IF hasKnownConditions(hp) THEN 2 ELSE 0) + (IF ageOver65(hp) THEN 1 ELSE 0)
    ELSE 0

\* the adjustment with "age >= 65" for "age > 65"
profileAdjustmentFrom65(hp) ==
    IF truthy(hp)
    THEN (IF hasKnownConditions(hp) THEN 1 ELSE 0)
         + (IF "age" \in DOMAIN hp /\ hp.age >= 65 THEN 1 ELSE 0)
    ELSE 0

\* "Adjust for health profile risk factors"
profileAdjustment(hp) ==
    IF truthy(hp)
    THEN (IF hasKnownConditions(hp) THEN 1 ELSE 0) + (IF ageOver65(hp) THEN 1 ELSE 0)
    ELSE 0

\* let maxSeverity = 'low'; let severityScore = 0;
severityStart == [maxSeverity |-> "low", severityScore |-> 0]

\* severityScore at the "Final severity determination" of calculateSeverity
severityScoreOf(syms, hp) ==
    severityForEach(severityStart, syms).severityScore + profileAdjustment(hp)

\* the determination with the two tiers exchanged
finalSeveritySwapped(score, maxSeverity) ==
    IF score >= 5 THEN "moderate"
    ELSE IF score >= 3 THEN "high"
    ELSE maxSeverity

\* "Final severity determination"
finalSeverity(score, maxSeverity) ==
    IF score >= 5 THEN "high"
    ELSE IF score >= 3 THEN "moderate"
    ELSE maxSeverity

\* calculateSeverity with the 'emergency' of its callback returned to the caller
calculateSeverityEarlyReturn(syms, hp) ==
    LET acc == severityForEach(severityStart, syms) IN
    IF \E i \in 1..Len(syms) :
            findSymptomIndex(syms[i]) # 0
            /\ symptomDatabase[findSymptomIndex(syms[i])].severity = "emergency"
    THEN "emergency"
    ELSE IF acc.severityScore + profileAdjustment(hp) >= 5 THEN "high"
    ELSE IF acc.severityScore + profileAdjustment(hp) >= 3 THEN "moderate"
    ELSE acc.maxSeverity

calculateSeverity(syms, hp) ==
    LET acc == severityForEach(severityStart, syms) IN
    finalSeverity(acc.severityScore + profileAdjustment(hp), acc.maxSeverity)

\* conditionsMap.set(condition, (conditionsMap.get(condition) || 0) + 1) on
\* the Map as the sequence of its entries in insertion order: a new key is
\* added at the end, a key already there keeps its place
mapIncrement(map, condition) ==
    IF \E i \in 1..Len(map) : map[i].condition = condition
    THEN [i \in 1..Len(map) |->
            IF map[i].condition = condition
            THEN [condition |-> condition, frequency |-> map[i].frequency + 1]
            ELSE map[i]]
    ELSE Append(map, [condition |-> condition, frequency |-> 1])

\* symptomData.relatedConditions.forEach(...)
RECURSIVE countConditions(_, _)
countConditions(map, conditions) ==
    IF Len(conditions) = 0 THEN map
    ELSE countConditions(mapIncrement(map, Head(conditions)), Tail(conditions))

\* symptoms.forEach(...) of identifyPossibleConditions
RECURSIVE conditionsForEach(_, _)
conditionsForEach(map, syms) ==
    IF Len(syms) = 0 THEN map
    ELSE LET symptomData == findSymptomData(Head(syms)) IN
         conditionsForEach(
            IF symptomData = null THEN map
            ELSE countConditions(map, symptomData.relatedConditions),
            Tail(syms))

\* one insertion of the sort under the comparator (a, b) => a[1] - b[1]
insertByFrequencyAscending(sorted, x) ==
    LET k == Cardinality({i \in 1..Len(sorted) : sorted[i].frequency <= x.frequency})
    IN  SubSeq(sorted, 1, k) \o <<x>> \o SubSeq(sorted, k + 1, Len(sorted))

\* One insertion of the sort: x goes behind every entry that the comparator
\* (a, b) => b[1] - a[1] does not put after it
insertByFrequency(sorted, x) ==
    LET k == Cardinality({i \in 1..Len(sorted) : sorted[i].frequency >= x.frequency})
    IN  SubSeq(sorted, 1, k) \o <<x>> \o SubSeq(sorted, k + 1, Len(sorted))

\* Array.prototype.sort((a, b) => b[1] - a[1]): descending frequency, and
\* stable (ECMAScript 2019), so equal frequencies keep the Map's order
RECURSIVE sortByFrequency(_)
sortByFrequency(entries) ==
    IF Len(entries) = 0 THEN <<>>
    ELSE insertByFrequency(
            sortByFrequency(SubSeq(entries, 1, Len(entries) - 1)),
            entries[Len(entries)])

\* .map(([condition, frequency]) => ({condition, likelihood}))
toLikelihood(entries) ==
    [i \in 1..Len(entries) |->
        [condition |-> entries[i].condition,
         likelihood |-> IF entries[i].frequency > 1 THEN "high" ELSE "moderate"]]

\* .slice(0, 5)
sliceFive(entries) == SubSeq(entries, 1, Min(5, Len(entries)))

identifyPossibleConditions(syms) ==
    sliceFive(toLikelihood(sortByFrequency(conditionsForEach(<<>>, syms))))

\* The blocks of generateRecommendations
HighBlock == <<
    "Consult a healthcare provider within 24 hours",
    "Monitor your symptoms closely",
    "Avoid strenuous activities" >>
ModerateBlock == <<
    "Consider scheduling a doctor appointment",
    "Track your symptoms over the next few days" >>
LowBlock == <<
    "Monitor symptoms; they may resolve on their own",
    "Maintain proper rest and hydration" >>
FeverBlock == <<
    "Stay hydrated and rest",
    "Take temperature regularly",
    "Use over-the-counter fever reducers if needed" >>
CoughBlock == <<
    "Stay hydrated with warm fluids",
    "Use a humidifier if available",
    "Avoid irritants like smoke" >>
KnownConditionsBlock == <<
    "Consider how symptoms may relate to your known conditions",
    "Contact your regular healthcare provider" >>
MedicationsBlock == <<
    "Check for potential drug interactions",
    "Consult pharmacist if taking new medications" >>

\* variant: only the first symptom is tested, symptoms[0].includes(word)
someIncludesFirstOnly(syms, word) == Len(syms) > 0 /\ includes(syms[1], word)

\* symptoms.some(s => s.includes(word))
someIncludes(syms, word) == \E i \in 1..Len(syms) : includes(syms[i], word)

\* variant: the block of 'high' for every tier
severityBlockHighAlways(sev) == HighBlock

\* "Severity-based recommendations"
severityBlock(sev) ==
    IF sev = "high" THEN HighBlock
    ELSE IF sev = "moderate" THEN ModerateBlock
    ELSE LowBlock

\* "Health profile considerations"
profileBlocks(hp) ==
    IF truthy(hp)
    THEN (IF hasKnownConditions(hp) THEN KnownConditionsBlock ELSE <<>>)
         \o (IF hasCurrentMedications(hp) THEN MedicationsBlock ELSE <<>>)
    ELSE <<>>

\* variant: the cough test and its block before the fever test
generateRecommendationsCoughFirst(syms, sev, hp, conditions) ==
    severityBlock(sev)
    \o (IF someIncludes(syms, "cough") THEN CoughBlock ELSE <<>>)
    \o (IF someIncludes(syms, "fever") THEN FeverBlock ELSE <<>>)
    \o profileBlocks(hp)

\* generateRecommendations; its parameter possibleConditions is never read
generateRecommendations(syms, sev, hp, conditions) ==
    severityBlock(sev)
    \o (IF someIncludes(syms, "fever") THEN FeverBlock ELSE <<>>)
    \o (IF someIncludes(syms, "cough") THEN CoughBlock ELSE <<>>)
    \o profileBlocks(hp)

getDisclaimer ==
    "This system provides general medical guidance and is not a substitute for professional medical advice, diagnosis, or treatment. Always seek the advice of your physician or other qualified health provider with any questions you may have regarding a medical condition."

\* The object analyzeSymptoms returns when no emergency was detected
analysisResult(syms, sev, conditions, recs) ==
    [severity |-> sev,
     emergencyDetected |-> FALSE,
     identifiedSymptoms |-> syms,
     possibleConditions |-> conditions,
     recommendations |-> recs,
     disclaimer |-> getDisclaimer]

\* analyzeSymptoms as a function of its arguments
analyzeSymptoms(syms, hp) ==
    LET normalized == normalize(syms) IN
    IF checkEmergency(normalized) THEN generateEmergencyResponse(normalized)
    ELSE LET sev == calculateSeverity(normalized, hp)
             conditions == identifyPossibleConditions(normalized)
         IN  analysisResult(normalized, sev, conditions,
                generateRecommendations(normalized, sev, hp, conditions))

\* recs.forEach(rec => { response += `(bullet) ${rec}\n` }); the bullet
\* character U+2022 is written "(bullet)"
RECURSIVE bulletLines(_, _)
bulletLines(recs, k) ==
    IF k > Len(recs) THEN ""
    ELSE "(bullet) " \o recs[k] \o "\n" \o bulletLines(recs, k + 1)

\* possibleConditions.forEach(pc => { response += `(bullet) ${pc.condition}
\* (${pc.likelihood} likelihood)\n` })
RECURSIVE conditionLines(_, _)
conditionLines(conditions, k) ==
    IF k > Len(conditions) THEN ""
    ELSE "(bullet) " \o conditions[k].condition \o " ("
         \o conditions[k].likelihood \o " likelihood)\n"
         \o conditionLines(conditions, k + 1)

\* generateResponse, the branch of an emergency analysis: it returns before
\* the line that appends the disclaimer
emergencyText(analysis) ==
    "(siren) **MEDICAL EMERGENCY DETECTED**\n\n"
    \o analysis.urgentAction \o "\n\n"
    \o "**Emergency Number:** " \o analysis.emergencyNumber \o "\n\n"
    \o "**Immediate Actions:**\n"
    \o bulletLines(analysis.recommendations, 1)

\* generateResponse, "Regular response"
regularText(analysis) ==
    "I've analyzed your symptoms. Here's what I found:\n\n"
    \o "**Severity Level:** " \o toUpperCase(analysis.severity) \o "\n\n"
    \o (IF "possibleConditions" \in DOMAIN analysis
           /\ Len(analysis.possibleConditions) > 0
        THEN "**Possible Conditions:**\n"
             \o conditionLines(analysis.possibleConditions, 1) \o "\n"
        ELSE "")
    \o "**Recommendations:**\n"
    \o bulletLines(analysis.recommendations, 1)
    \o "\n**Important:** " \o analysis.disclaimer

\* generateResponse; its parameter healthProfile is never read
generateResponse(analysis, hp) ==
    IF analysis.emergencyDetected THEN emergencyText(analysis)
    ELSE regularText(analysis)

-----------------------------------------------------------------------------
(* The arguments one call is drawn from *)

\* Symptom phrases as a caller may pass them: with capitals and white space
\* around, containing an emergency keyword, contained in one, matching a
\* table entry of each tier, matching none, and blank
Phrases == {
    " Chest Pain",     \* contains the keyword 'chest pain'
    "chest",           \* part of a keyword; matches 'chest pain' (high)
    "stroke",          \* part of a keyword; matches no entry
    "consciousness",   \* matches 'loss of consciousness' (emergency)
    "high fever",      \* matches 'fever' (moderate)
    "Cough ",          \* low
    "body aches",      \* low; shares 'flu' with 'fever'
    "  " }             \* blank: '' after trim

\* the sequences over S of length 0..n
RECURSIVE SeqsUpTo(_, _)
SeqsUpTo(S, n) ==
    IF n = 0 THEN {<<>>}
    ELSE LET shorter == SeqsUpTo(S, n - 1) IN
         shorter \cup {Append(q, x) : q \in {r \in shorter : Len(r) = n - 1}, x \in S}

SymptomLists == SeqsUpTo(Phrases, MaxSymptoms)

\* Health profiles: absent, without the optional lists, and with each
\* combination the code tells apart (age on both sides of 65)
HealthProfiles == {
    null,
    [type |-> "object", age |-> 65],
    [type |-> "object", age |-> 70, knownConditions |-> <<"diabetes">>, currentMedications |-> <<>>],
    [type |-> "object", age |-> 65, knownConditions |-> <<"diabetes">>, currentMedications |-> <<"aspirin">>],
    [type |-> "object", age |-> 70, knownConditions |-> <<>>, currentMedications |-> <<"aspirin">>] }

-----------------------------------------------------------------------------
(* One call of analyzeSymptoms *)

\* no server is running: empty collections and no request
\* the Chat page is not mounted
NoChatPage ==
    /\ chatPage = <<>>
    /\ apiCalls = <<>>

NoRequests ==
    /\ env = <<>>
    /\ users = <<>>
    /\ sessions = <<>>
    /\ profiles = <<>>
    /\ requests = <<>>
    /\ writes = {}

Init ==
    /\ symptoms \in SymptomLists
    /\ healthProfile \in HealthProfiles
    /\ pc = "normalize"
    /\ normalizedSymptoms = <<>>
    /\ emergencyDetected = FALSE
    /\ severityScore = -1
    /\ severity = ""
    /\ possibleConditions = <<>>
    /\ recommendations = <<>>
    /\ result = undefined
    /\ response = undefined
    /\ staticTables = [symptomDatabase |-> symptomDatabase,
                       emergencySymptoms |-> emergencySymptoms]
    /\ callArgs = [symptoms |-> symptoms, healthProfile |-> healthProfile]
    /\ observed = {}
    /\ calls = 1
    /\ NoRequests
    /\ NoChatPage

\* variant: the list is normalized in place, symptoms[i] = symptoms[i]
\* .toLowerCase().trim()
NormalizeInPlace ==
    /\ pc = "normalize"
    /\ symptoms' = normalize(symptoms)
    /\ normalizedSymptoms' = symptoms'
    /\ pc' = "checkEmergency"
    /\ UNCHANGED <<callVars, handlerVars, pageVars, response, healthProfile,
                   emergencyDetected, severityScore, severity,
                   possibleConditions, recommendations, result>>

\* const normalizedSymptoms = symptoms.map(...)
Normalize ==
    /\ pc = "normalize"
    /\ normalizedSymptoms' = normalize(symptoms)
    /\ pc' = "checkEmergency"
    /\ UNCHANGED <<callVars, handlerVars, pageVars, response, symptoms, healthProfile, emergencyDetected, severityScore,
                   severity, possibleConditions, recommendations, result>>

\* const emergencyDetected = this.checkEmergency(normalizedSymptoms)
CheckEmergency ==
    /\ pc = "checkEmergency"
    /\ emergencyDetected' = checkEmergency(normalizedSymptoms)
    /\ pc' = IF emergencyDetected' THEN "emergencyResponse" ELSE "calculateSeverity"
    /\ UNCHANGED <<callVars, handlerVars, pageVars, response, symptoms, healthProfile, normalizedSymptoms, severityScore,
                   severity, possibleConditions, recommendations, result>>

\* return this.generateEmergencyResponse(normalizedSymptoms)
EmergencyResponse ==
    /\ pc = "emergencyResponse"
    /\ result' = generateEmergencyResponse(normalizedSymptoms)
    /\ pc' = "done"
    /\ UNCHANGED <<callVars, handlerVars, pageVars, response, symptoms, healthProfile, normalizedSymptoms, emergencyDetected,
                   severityScore, severity, possibleConditions, recommendations>>

\* const severity = this.calculateSeverity(normalizedSymptoms, healthProfile)
CalculateSeverity ==
    /\ pc = "calculateSeverity"
    /\ severityScore' = severityScoreOf(normalizedSymptoms, healthProfile)
    /\ severity' = calculateSeverity(normalizedSymptoms, healthProfile)
    /\ pc' = "identifyPossibleConditions"
    /\ UNCHANGED <<callVars, handlerVars, pageVars, response, symptoms, healthProfile, normalizedSymptoms, emergencyDetected,
                   possibleConditions, recommendations, result>>

\* const possibleConditions = this.identifyPossibleConditions(normalizedSymptoms)
IdentifyPossibleConditions ==
    /\ pc = "identifyPossibleConditions"
    /\ possibleConditions' = identifyPossibleConditions(normalizedSymptoms)
    /\ pc' = "generateRecommendations"
    /\ UNCHANGED <<callVars, handlerVars, pageVars, response, symptoms, healthProfile, normalizedSymptoms, emergencyDetected,
                   severityScore, severity, recommendations, result>>

\* const recommendations = this.generateRecommendations(...)
GenerateRecommendations ==
    /\ pc = "generateRecommendations"
    /\ recommendations' = generateRecommendations(normalizedSymptoms, severity,
                                                  healthProfile, possibleConditions)
    /\ pc' = "return"
    /\ UNCHANGED <<callVars, handlerVars, pageVars, response, symptoms, healthProfile, normalizedSymptoms, emergencyDetected,
                   severityScore, severity, possibleConditions, result>>

\* return { severity, emergencyDetected: false, ... }
Return ==
    /\ pc = "return"
    /\ result' = analysisResult(normalizedSymptoms, severity, possibleConditions,
                                recommendations)
    /\ pc' = "done"
    /\ UNCHANGED <<callVars, handlerVars, pageVars, response, symptoms, healthProfile, normalizedSymptoms, emergencyDetected,
                   severityScore, severity, possibleConditions, recommendations>>

\* MedicalAIService.generateResponse(analysis, healthProfile) on the returned
\* analysis
GenerateResponse ==
    /\ pc = "done"
    /\ response' = generateResponse(result, healthProfile)
    /\ pc' = "responded"
    /\ UNCHANGED <<callVars, handlerVars, pageVars, symptoms, healthProfile, normalizedSymptoms, emergencyDetected,
                   severityScore, severity, possibleConditions, recommendations,
                   result>>

Next ==
    \/ Normalize
    \/ CheckEmergency
    \/ EmergencyResponse
    \/ CalculateSeverity
    \/ IdentifyPossibleConditions
    \/ GenerateRecommendations
    \/ Return
    \/ GenerateResponse

Spec == Init /\ [][Next]_vars

\* the call has returned without an emergency / with one
Returned == pc = "done"
ReturnedNormal == pc = "done" /\ ~emergencyDetected
ReturnedEmergency == pc = "done" /\ emergencyDetected

\* The actions compute what the function of the arguments computes
ResultIsAnalyzeSymptoms == Returned => result = analyzeSymptoms(symptoms, healthProfile)

-----------------------------------------------------------------------------
(* Vocabulary of the properties *)

\* the order low < moderate < high < emergency
Rank(tier) ==
    CASE tier = "low" -> 1
      [] tier = "moderate" -> 2
      [] tier = "high" -> 3
      [] tier = "emergency" -> 4

\* the phrase s, once lower-cased and trimmed, contains an emergency keyword
ContainsKeyword(s) ==
    \E e \in 1..Len(emergencySymptoms) :
        includes(trim(toLowerCase(s)), emergencySymptoms[e])

\* the phrase s, once lower-cased and trimmed, is not empty and is part of an
\* emergency keyword
PartOfKeyword(s) ==
    /\ Len(trim(toLowerCase(s))) > 0
    /\ \E e \in 1..Len(emergencySymptoms) :
        includes(emergencySymptoms[e], trim(toLowerCase(s)))

\* the tier of the table entry the phrase s resolves to, "none" without one
MatchedTier(s) ==
    LET k == findSymptomIndex(trim(toLowerCase(s))) IN
    IF k = 0 THEN "none" ELSE symptomDatabase[k].severity

-----------------------------------------------------------------------------
(* C1 *)

\* C1: whenever some phrase of the symptom list, lower-cased and trimmed,
\* contains one of the 8 emergency keywords, analyzeSymptoms returns severity
\* 'emergency', emergencyDetected true, the fixed 5-item action list as its
\* recommendations and no possibleConditions, whatever the other phrases and
\* the health profile are.
C1_KeywordGivesEmergency ==
    (Returned /\ \E i \in 1..Len(symptoms) : ContainsKeyword(symptoms[i]))
    => /\ result.severity = "emergency"
       /\ result.emergencyDetected = TRUE
       /\ Len(result.recommendations) = 5
       /\ result.recommendations = EmergencyRecommendations
       /\ "possibleConditions" \notin DOMAIN result

\* a call has returned for a list whose keyword phrase is not the first one,
\* beside phrases that match table entries, with a health profile present
C1_Witness ==
    /\ Returned
    /\ Len(symptoms) >= 2
    /\ ~ContainsKeyword(symptoms[1])
    /\ MatchedTier(symptoms[1]) = "moderate"
    /\ \E i \in 2..Len(symptoms) : ContainsKeyword(symptoms[i])
    /\ truthy(healthProfile)
    /\ result.emergencyDetected

-----------------------------------------------------------------------------
(* C2 *)

\* C2 as stated: whenever some non-empty normalized phrase is itself a
\* substring of one of the 8 emergency keywords, analyzeSymptoms returns
\* severity 'emergency' and emergencyDetected true.
C2_PartOfKeywordGivesEmergency ==
    (Returned /\ \E i \in 1..Len(symptoms) : PartOfKeyword(symptoms[i]))
    => /\ result.severity = "emergency"
       /\ result.emergencyDetected = TRUE

\* C2 as amended: the emergency check matches in one direction only.
\* emergencyDetected is true exactly when some normalized phrase contains a
\* keyword; a list in which no phrase does returns emergencyDetected false
\* and the ordinary result (with possibleConditions), also when a phrase is
\* part of a keyword, and its severity is then not 'emergency' unless a
\* phrase resolves to a table entry of tier 'emergency'.
C2_OnlyContainingPhraseMatches ==
    Returned =>
        /\ result.emergencyDetected
            <=> (\E i \in 1..Len(symptoms) : ContainsKeyword(symptoms[i]))
        /\ (\A i \in 1..Len(symptoms) : ~ContainsKeyword(symptoms[i]))
            => /\ "possibleConditions" \in DOMAIN result
               /\ (\A i \in 1..Len(symptoms) : MatchedTier(symptoms[i]) # "emergency")
                    => result.severity # "emergency"

\* a call has returned for a list with a phrase that is part of a keyword
\* ('chest', 'stroke') and no phrase that contains one
C2_Witness ==
    /\ Returned
    /\ \E i \in 1..Len(symptoms) :
        PartOfKeyword(symptoms[i]) /\ MatchedTier(symptoms[i]) = "high"
    /\ \E i \in 1..Len(symptoms) :
        PartOfKeyword(symptoms[i]) /\ MatchedTier(symptoms[i]) = "none"
    /\ \A i \in 1..Len(symptoms) : ~ContainsKeyword(symptoms[i])
    /\ result.emergencyDetected = FALSE

-----------------------------------------------------------------------------
(* C3 *)

\* every string of the severity, fever, cough and profile blocks
OrdinaryRecommendations ==
    UNION {{b[i] : i \in 1..Len(b)} :
            b \in {HighBlock, ModerateBlock, LowBlock, FeverBlock, CoughBlock,
                   KnownConditionsBlock, MedicationsBlock}}

\* C3: in every result of analyzeSymptoms emergencyDetected is true if and
\* only if severity is 'emergency'; when it is true the result carries only
\* the fixed emergency recommendations, and severity scoring, condition
\* aggregation and the fever/cough/profile recommendation logic never ran.
C3_EmergencyFlagIffEmergencySeverity ==
    Returned =>
        /\ result.emergencyDetected <=> result.severity = "emergency"
        /\ result.emergencyDetected =>
            /\ result.recommendations = EmergencyRecommendations
            /\ \A i \in 1..Len(result.recommendations) :
                    result.recommendations[i] \notin OrdinaryRecommendations
            /\ "possibleConditions" \notin DOMAIN result
            /\ severityScore = -1
            /\ severity = ""
            /\ possibleConditions = <<>>
            /\ recommendations = <<>>

\* an emergency result for a list that also has a fever phrase, a phrase that
\* matches a table entry, and a profile with known conditions
C3_Witness ==
    /\ ReturnedEmergency
    /\ someIncludes(normalizedSymptoms, "fever")
    /\ truthy(healthProfile) /\ hasKnownConditions(healthProfile)
    /\ result.severity = "emergency"

-----------------------------------------------------------------------------
(* C4 *)

\* C4: when the keyword check finds nothing but a phrase resolves to a table
\* entry of tier 'emergency' ('consciousness' resolves to 'loss of
\* consciousness'), the severity analyzeSymptoms returns is 'emergency'.
C4_EmergencyTierGivesEmergency ==
    (ReturnedNormal
        /\ \E i \in 1..Len(symptoms) : MatchedTier(symptoms[i]) = "emergency")
    => result.severity = "emergency"

-----------------------------------------------------------------------------
(* C5 *)

\* C5 as stated: for an empty symptom list analyzeSymptoms returns severity
\* 'low', emergencyDetected false, an empty possibleConditions list and the
\* low-severity boilerplate as its whole recommendation list, for every
\* health profile.
C5_EmptyListLowBoilerplateOnly ==
    (Returned /\ symptoms = <<>>)
    => /\ result.severity = "low"
       /\ result.emergencyDetected = FALSE
       /\ result.possibleConditions = <<>>
       /\ result.recommendations = LowBlock

\* C5 as amended: for an empty symptom list and every health profile the
\* result has severity 'low', emergencyDetected false and no
\* possibleConditions; its recommendations are the low-severity boilerplate,
\* followed by the 2 known-conditions strings when the profile has known
\* conditions and by the 2 medication strings when it has current
\* medications, so the boilerplate alone when the profile is absent or has
\* neither.
C5_EmptyListLowThenProfileBlocks ==
    (Returned /\ symptoms = <<>>)
    => /\ result.severity = "low"
       /\ result.emergencyDetected = FALSE
       /\ result.possibleConditions = <<>>
       /\ result.recommendations =
            LowBlock
            \o (IF healthProfile # null
                   /\ "knownConditions" \in DOMAIN healthProfile
                   /\ healthProfile.knownConditions # <<>>
                THEN KnownConditionsBlock ELSE <<>>)
            \o (IF healthProfile # null
                   /\ "currentMedications" \in DOMAIN healthProfile
                   /\ healthProfile.currentMedications # <<>>
                THEN MedicationsBlock ELSE <<>>)

\* the empty list was analyzed for a profile with known conditions and an
\* age over 65 (both score adjustments apply) and with medications
C5_Witness ==
    /\ Returned
    /\ symptoms = <<>>
    /\ truthy(healthProfile)
    /\ hasKnownConditions(healthProfile)
    /\ ageOver65(healthProfile)
    /\ severityScore = 2
    /\ Len(result.recommendations) = 4

-----------------------------------------------------------------------------
(* C6 *)

\* the drawn phrases that resolve to a 'high'-tier table entry
HighPhrases == {p \in Phrases : MatchedTier(p) = "high"}

\* C6: appending one phrase that resolves to a 'high'-tier table entry to any
\* symptom list never lowers the result: for the list L and the profile of
\* the call and every such phrase p, the tier of analyzeSymptoms(L followed
\* by p) is at least the tier returned for L.
C6_AppendHighNeverLowers ==
    Returned =>
        \A p \in HighPhrases :
            Rank(analyzeSymptoms(Append(symptoms, p), healthProfile).severity)
                >= Rank(result.severity)

\* a call returned 'high' from its score for a list of full length, and there
\* is a 'high'-tier phrase to append that does not trigger the keyword check
C6_Witness ==
    /\ ReturnedNormal
    /\ Len(symptoms) = MaxSymptoms
    /\ result.severity = "high"
    /\ \E p \in HighPhrases : ~ContainsKeyword(p)

-----------------------------------------------------------------------------
(* C7 *)

\* (accumulated score, tier) of every non-emergency classification of the
\* drawn lists and profiles
Classifications ==
    {<<severityScoreOf(normalize(L), hp), calculateSeverity(normalize(L), hp)>> :
        L \in {M \in SymptomLists : ~checkEmergency(normalize(M))},
        hp \in HealthProfiles}

\* C7 as stated: for any two non-emergency classifications, if the score of
\* the first is less than or equal to the score of the second, the tier of
\* the first is less than or equal to the tier of the second.
C7_TierMonotonicInScore ==
    ReturnedNormal =>
        \A c \in Classifications :
            severityScore <= c[1] => Rank(result.severity) <= Rank(c[2])

\* C7 as amended: for any two non-emergency classifications, if the score of
\* the first is strictly less than the score of the second, the tier of the
\* first is less than or equal to the tier of the second, and two
\* classifications with the same score of 3 or more have the same tier.
\* (With the same score below 3 the tiers may differ: the tier is then the
\* highest tier matched.)
C7_TierMonotonicInStrictScore ==
    ReturnedNormal =>
        \A c \in Classifications :
            /\ severityScore < c[1] => Rank(result.severity) <= Rank(c[2])
            /\ (severityScore = c[1] /\ severityScore >= 3) => result.severity = c[2]

\* a call returned 'moderate' with score 2 while another classification has
\* score 2 and tier 'low', and classifications of every tier exist
C7_Witness ==
    /\ ReturnedNormal
    /\ severityScore = 2
    /\ result.severity = "moderate"
    /\ <<2, "low">> \in Classifications
    /\ \E c \in Classifications : c[1] > 2 /\ c[2] = "moderate"
    /\ \E c \in Classifications : c[2] = "high"

-----------------------------------------------------------------------------
(* C8 *)

\* the list L with the phrase p put in at position j (1 .. Len(L) + 1)
InsertAt(L, j, p) == SubSeq(L, 1, j - 1) \o <<p>> \o SubSeq(L, j, Len(L))

\* what one matched phrase of the given tier adds to the score
Weight(tier) ==
    CASE tier = "high" -> 3
      [] tier = "moderate" -> 2
      [] tier = "low" -> 1
      [] OTHER -> 0

\* C8: duplicate phrases are not deduplicated: for a non-emergency list and
\* each of its phrases p that resolves to a table entry, one more occurrence
\* of p, put in front of the list or behind it, adds the entry's weight (3, 2
\* or 1 for high, moderate or low) to the accumulated score once more, and
\* the score and the tier with p repeated are at least those of the list
\* itself.
C8_DuplicatesCountAgain ==
    ReturnedNormal =>
        \A i \in 1..Len(symptoms) :
            LET tier == MatchedTier(symptoms[i]) IN
            tier # "none" =>
                \A j \in {1, Len(symptoms) + 1} :
                    LET D == normalize(InsertAt(symptoms, j, symptoms[i]))
                        score == severityScoreOf(D, healthProfile)
                    IN  /\ score = severityScore + Weight(tier)
                        /\ score >= severityScore
                        /\ Rank(calculateSeverity(D, healthProfile))
                            >= Rank(result.severity)

\* a call returned for a list that already holds a matched phrase twice, and
\* a third occurrence lifts the tier
C8_Witness ==
    /\ ReturnedNormal
    /\ \E i, j \in 1..Len(symptoms) :
        /\ i < j
        /\ symptoms[i] = symptoms[j]
        /\ MatchedTier(symptoms[i]) = "moderate"
        /\ Rank(analyzeSymptoms(Append(symptoms, symptoms[i]), healthProfile).severity)
            > Rank(result.severity)

-----------------------------------------------------------------------------
(* C9 *)

\* C9: a present health profile adds 1 to the score when knownConditions is
\* not empty and 1 more when age > 65, and for every non-emergency symptom
\* list the tier returned with the profile is at or above the tier returned
\* with no profile.
C9_ProfileOnlyRaises ==
    ReturnedNormal =>
        /\ severityScore =
            severityScoreOf(normalizedSymptoms, null)
            + (IF healthProfile # null
                  /\ "knownConditions" \in DOMAIN healthProfile
                  /\ healthProfile.knownConditions # <<>>
               THEN 1 ELSE 0)
            + (IF healthProfile # null
                  /\ "age" \in DOMAIN healthProfile
                  /\ healthProfile.age > 65
               THEN 1 ELSE 0)
        /\ Rank(result.severity) >= Rank(analyzeSymptoms(symptoms, null).severity)

\* ['Cough '] was analyzed with a profile of age 70 with a known condition:
\* score 1 + 2, tier 'moderate' against 'low' without the profile
C9_Witness ==
    /\ ReturnedNormal
    /\ normalizedSymptoms = <<"cough">>
    /\ truthy(healthProfile)
    /\ healthProfile.age = 70
    /\ hasKnownConditions(healthProfile)
    /\ severityScore = 3
    /\ result.severity = "moderate"
    /\ analyzeSymptoms(symptoms, null).severity = "low"

-----------------------------------------------------------------------------
(* C10 *)

\* Every encounter of a related-condition name while the matched entries are
\* walked: <<phrase position, place in the entry's list, name>>
Occurrences ==
    UNION {
        LET k == findSymptomIndex(normalizedSymptoms[i]) IN
        IF k = 0 THEN {}
        ELSE {<<i, j, symptomDatabase[k].relatedConditions[j]>> :
                j \in 1..Len(symptomDatabase[k].relatedConditions)} :
        i \in 1..Len(normalizedSymptoms)}

\* the distinct names among the encounters occ
Names(occ) == {o[3] : o \in occ}

\* the match frequency of the name c
Frequency(occ, c) == Cardinality({o \in occ : o[3] = c})

\* the name c was first encountered before the name d was
EncounteredBefore(occ, c, d) ==
    \E o \in occ :
        /\ o[3] = c
        /\ \A q \in occ :
            q[3] = d => (o[1] < q[1] \/ (o[1] = q[1] /\ o[2] < q[2]))

\* C10: for every non-emergency symptom list, possibleConditions has
\* min(5, number of distinct related-condition names of the matched entries)
\* entries, each a different one of these names, in descending match
\* frequency with ties in first-encountered order, and no name left out has a
\* higher frequency than one that is kept.
C10_ConditionsCappedAndOrdered ==
    ReturnedNormal =>
        LET occ == Occurrences
            names == Names(occ)
            freq == [c \in names |-> Frequency(occ, c)]
            out == result.possibleConditions
            kept == {out[k].condition : k \in 1..Len(out)}
        IN  /\ Len(out) = Min(5, Cardinality(names))
            /\ Cardinality(names) > 5 => Len(out) = 5
            /\ kept \subseteq names
            /\ Cardinality(kept) = Len(out)
            /\ \A k \in 1..(Len(out) - 1) :
                    \/ freq[out[k].condition] > freq[out[k + 1].condition]
                    \/ /\ freq[out[k].condition] = freq[out[k + 1].condition]
                       /\ EncounteredBefore(occ, out[k].condition, out[k + 1].condition)
            /\ \A c \in names \ kept :
                \A d \in kept : freq[c] <= freq[d]

\* more than 5 distinct names matched, one of them twice, and the sort moved
\* it ahead of a name encountered earlier
C10_Witness ==
    /\ ReturnedNormal
    /\ Cardinality(Names(Occurrences)) > 5
    /\ Len(result.possibleConditions) = 5
    /\ Frequency(Occurrences, result.possibleConditions[1].condition) = 2
    /\ Frequency(Occurrences, result.possibleConditions[2].condition) = 1
    /\ EncounteredBefore(Occurrences, result.possibleConditions[2].condition,
                         result.possibleConditions[1].condition)

-----------------------------------------------------------------------------
(* C11: the fever and cough blocks *)

\* every string of the block is one of the recommendations
HasBlock(recs, block) ==
    \A i \in 1..Len(block) : \E j \in 1..Len(recs) : recs[j] = block[i]

\* some phrase of the list contains the word
SomePhraseContains(L, word) == {i \in 1..Len(L) : includes(L[i], word)} /= {}

\* C11 as stated: whenever a normalized phrase contains 'fever', the returned
\* recommendations contain the 3 fever strings, whatever the tier, 'emergency'
\* included; the same for 'cough' and the 3 cough strings.
C11_FeverCoughBlocksAnyTier ==
    Returned =>
        /\ SomePhraseContains(normalizedSymptoms, "fever")
              => HasBlock(result.recommendations, FeverBlock)
        /\ SomePhraseContains(normalizedSymptoms, "cough")
              => HasBlock(result.recommendations, CoughBlock)

\* C11 amended: whenever a normalized phrase contains 'fever' and the call
\* returned a tier other than 'emergency' (low, moderate or high), the returned
\* recommendations contain the 3 fever strings; the same for 'cough' and the 3
\* cough strings.  The emergency result carries the fixed emergency script only.
C11_FeverCoughBlocksBelowEmergency ==
    /\ ReturnedNormal =>
          /\ SomePhraseContains(normalizedSymptoms, "fever")
                => HasBlock(result.recommendations, FeverBlock)
          /\ SomePhraseContains(normalizedSymptoms, "cough")
                => HasBlock(result.recommendations, CoughBlock)
    /\ ReturnedEmergency => result.recommendations = EmergencyRecommendations

\* a high-tier call whose second phrase is the one that contains 'fever', and
\* whose result carries both the fever and the cough block
C11_Witness ==
    /\ ReturnedNormal
    /\ result.severity = "high"
    /\ Len(normalizedSymptoms) = 3
    /\ ~includes(normalizedSymptoms[1], "fever")
    /\ includes(normalizedSymptoms[2], "fever")
    /\ includes(normalizedSymptoms[3], "cough")
    /\ HasBlock(result.recommendations, FeverBlock)
    /\ HasBlock(result.recommendations, CoughBlock)

-----------------------------------------------------------------------------
(* C12: the disclaimer *)

\* C12: every result of analyzeSymptoms that is not an emergency carries the
\* fixed disclaimer of getDisclaimer, and the text generateResponse produces
\* for an analysis contains that analysis's disclaimer, for an emergency
\* analysis as for any other.
C12_EveryResponseCarriesDisclaimer ==
    /\ ReturnedNormal => result.disclaimer = getDisclaimer
    /\ pc = "responded" =>
          /\ "disclaimer" \in DOMAIN result
          /\ Len(result.disclaimer) > 0
          /\ includes(response, result.disclaimer)

\* The part of C12 the code keeps: the disclaimer is attached to every
\* ordinary result and is the end of the text generated for it
DisclaimerOnOrdinaryResponses ==
    /\ ReturnedNormal => result.disclaimer = getDisclaimer
    /\ (pc = "responded" /\ ~emergencyDetected) =>
          includes(response, getDisclaimer)

\* an emergency analysis whose generated text lacks its disclaimer
EmergencyTextWithoutDisclaimer ==
    /\ pc = "responded"
    /\ emergencyDetected
    /\ ~includes(response, result.disclaimer)

-----------------------------------------------------------------------------
(* C14: blank phrases *)

\* every phrase of the list is empty or white space only
AllBlank(L) == \A i \in 1..Len(L) : trim(L[i]) = ""

\* C14: for every symptom list whose phrases are all empty or white space
\* only, analyzeSymptoms returns severity 'low', emergencyDetected false and
\* an empty possibleConditions list.
C14_BlankListDegradesToLow ==
    (Returned /\ AllBlank(symptoms)) =>
        /\ result.severity = "low"
        /\ result.emergencyDetected = FALSE
        /\ "possibleConditions" \in DOMAIN result
        /\ result.possibleConditions = <<>>

\* a list of one blank phrase for which the call returned the tier and the
\* conditions of the first table entry, 'chest pain'
BlankPhraseResolvesToFirstEntry ==
    /\ Returned
    /\ Len(symptoms) = 1
    /\ AllBlank(symptoms)
    /\ healthProfile = null
    /\ result.severity = "moderate"
    /\ Len(result.possibleConditions) = Len(symptomDatabase[1].relatedConditions)
    /\ \A i \in 1..Len(result.possibleConditions) :
          result.possibleConditions[i].condition
             = symptomDatabase[1].relatedConditions[i]

-----------------------------------------------------------------------------
(* Several calls of analyzeSymptoms, one after the other.  analyzeSymptoms
   is synchronous (it awaits nothing), so a JavaScript caller cannot run one
   call inside another: calls interleave as whole calls. *)

\* the most calls made in one behaviour
MaxCalls == 3

\* the arguments the callers pass
CallLists == {<<>>, <<" Chest Pain">>, <<"high fever", "Cough ">>,
              <<"  ", "body aches">>}
CallProfiles ==
    {null,
     [type |-> "object", age |-> 70, knownConditions |-> <<"diabetes">>,
      currentMedications |-> <<>>]}

InitCalls ==
    /\ symptoms \in CallLists
    /\ healthProfile \in CallProfiles
    /\ pc = "normalize"
    /\ normalizedSymptoms = <<>>
    /\ emergencyDetected = FALSE
    /\ severityScore = -1
    /\ severity = ""
    /\ possibleConditions = <<>>
    /\ recommendations = <<>>
    /\ result = undefined
    /\ response = undefined
    /\ staticTables = [symptomDatabase |-> symptomDatabase,
                       emergencySymptoms |-> emergencySymptoms]
    /\ callArgs = [symptoms |-> symptoms, healthProfile |-> healthProfile]
    /\ observed = <<>>
    /\ calls = 1
    /\ NoRequests
    /\ NoChatPage

\* what the caller holds once the call has returned: the arguments it passed
\* and the result
Observation ==
    [symptoms |-> callArgs.symptoms, healthProfile |-> callArgs.healthProfile,
     result |-> result]

\* a caller keeps the result and calls analyzeSymptoms again, with a new frame
\* of locals
NextCall ==
    /\ pc \in {"done", "responded"}
    /\ calls < MaxCalls
    /\ observed' = Append(observed, Observation)
    /\ calls' = calls + 1
    /\ \E l \in CallLists, p \in CallProfiles :
          /\ symptoms' = l
          /\ healthProfile' = p
          /\ callArgs' = [symptoms |-> l, healthProfile |-> p]
    /\ pc' = "normalize"
    /\ normalizedSymptoms' = <<>>
    /\ emergencyDetected' = FALSE
    /\ severityScore' = -1
    /\ severity' = ""
    /\ possibleConditions' = <<>>
    /\ recommendations' = <<>>
    /\ result' = undefined
    /\ response' = undefined
    /\ UNCHANGED <<staticTables, handlerVars, pageVars>>

NextCalls ==
    \/ Normalize
    \/ CheckEmergency
    \/ EmergencyResponse
    \/ CalculateSeverity
    \/ IdentifyPossibleConditions
    \/ GenerateRecommendations
    \/ Return
    \/ GenerateResponse
    \/ NextCall

SpecCalls == InitCalls /\ [][NextCalls]_vars

\* the calls that have returned, the current one included
ReturnedCalls ==
    IF pc \in {"done", "responded"} THEN Append(observed, Observation)
    ELSE observed

-----------------------------------------------------------------------------
(* The request handlers: controllers/chat.controller.js and
   controllers/healthProfile.controller.js, with the ChatSession and
   HealthProfile models they store into.  A handler is an async function:
   each await is a point where another request's handler may run, so one
   action is the code between two awaits, together with the storage
   operation the first await waits for. *)

UserIds == {"u1", "u2"}
SessionIds == {"s1", "s2"}
ProfileIds == {"p1", "p2"}
RequestIds == {"r1", "r2"}

\* a document that was deleted from its collection (an id is never reused)
deleted == [type |-> "deleted"]

\* a request slot no request has arrived in
idleRequest ==
    [handler |-> "none", pc |-> "idle",
     number |-> 0,                  \* the requests that have arrived in the slot
     headers |-> <<>>,              \* req.headers
     token |-> undefined,           \* let token (protect)
     decoded |-> undefined,         \* const decoded (protect)
     user |-> null,                 \* req.user
     params |-> <<>>,               \* req.params
     body |-> <<>>,                 \* req.body
     session |-> null,              \* const session
     healthProfile |-> null,        \* const healthProfile / let profile
     tiers |-> <<>>,                \* the response tiers called, with outcomes
     aiResponse |-> undefined,      \* let aiResponse
     analysis |-> undefined,        \* const symptoms, severity, isEmergency
     caught |-> "",                 \* the error the handler's catch received
     sent |-> <<>>,                 \* the responses sent through res
     nextCalls |-> <<>>]            \* the calls of next

\* res.status(code).json(body)
send(req, code, body) ==
    [req EXCEPT !.sent = Append(@, [status |-> code, body |-> body]),
                !.pc = "done"]

\* next(error), answered by the global error handler
nextError(req, name) ==
    [req EXCEPT !.caught = name,
                !.nextCalls = Append(@, name),
                !.sent = Append(@, [status |-> IF name = "duplicate key" THEN 400
                                               ELSE IF name = "CastError" THEN 404
                                               ELSE 500,
                                    body |-> [success |-> FALSE]]),
                !.pc = "done"]

\* the string can be cast to an ObjectId: a query with another string for
\* _id is rejected with a CastError
castsToObjectId(id) == id \in SessionIds

\* Model.findOne({ _id: id, user: userId }) on the ChatSession collection
findSession(id, userId) ==
    IF id \in DOMAIN sessions /\ sessions[id].type = "object"
       /\ sessions[id].user = userId
    THEN sessions[id] ELSE null

\* HealthProfile.findOne({ user: userId }); user is a unique index
findProfile(userId) ==
    IF \E p \in DOMAIN profiles :
          profiles[p].type = "object" /\ profiles[p].user = userId
    THEN LET p == CHOOSE q \in DOMAIN profiles :
                    profiles[q].type = "object" /\ profiles[q].user = userId
         IN  profiles[p]
    ELSE null

\* a record of the history of writes: request r wrote document id of the
\* collection; before and after are the document's user field ("none": no
\* such document)
written(r, collection, id, before, after) ==
    [request |-> r, requester |-> requests[r].user.id, collection |-> collection,
     id |-> id, before |-> before, after |-> after]

\* the user field of a stored document, "none" when there is no document
ownerOf(doc) == IF doc.type = "object" THEN doc.user ELSE "none"

\* a JavaScript value that is a string, where a variable may also hold
\* undefined
string(text) == [type |-> "string", value |-> text]

\* the record with one more field, or with that field replaced
withField(record, key, value) == (key :> value) @@ record

\* MessageSchema: role, content (required), and of the metadata the paths
\* the schema has, severity and identifiedSymptoms
newMessage(role, content, metadata) ==
    [role |-> role, content |-> content, metadata |-> metadata]

\* the validation save() runs on a pushed message: content is required, and
\* the required validator of a String rejects the empty string
validMessage(msg) == msg.content /= ""

\* session.addMessage: what save() stores, a $push onto the stored array
\* (the array may have grown since this request loaded the document)
savePush(stored, msg) ==
    [stored EXCEPT !.messages = Append(@, msg), !.version = @ + 1]

-----------------------------------------------------------------------------
(* sendMessage and its helpers.  The emoji of the texts are written as
   words in parentheses and the bullet U+2022 as "(bullet)". *)

\* process.env.GEMINI_API_KEY is set
hasApiKey == "GEMINI_API_KEY" \in DOMAIN env

\* What one call of callGeminiClean can do, by what the hosted service does:
\* the key is missing (throws before the fetch); fetch rejects; the status
\* is not OK; the body is not JSON; the JSON has no candidates[0].content
\* .parts[0] (a TypeError); parts[0] has no text (undefined is returned);
\* the text is returned
HostedTexts == {
    "",
    "(stethoscope) ANALYSIS\nThis looks like a tension headache.\n\n---\nDisclaimer: I am an AI. Please consult a doctor for a professional diagnosis.",
    "(stethoscope) ANALYSIS\nThese can be signs of a heart attack. Call 911 now." }

hostedOutcomes ==
    IF ~hasApiKey THEN {[threw |-> TRUE, error |-> "GEMINI_API_KEY is missing"]}
    ELSE {[threw |-> TRUE, error |-> e] :
             e \in {"fetch failed", "Status 429", "Unexpected token in JSON",
                    "Cannot read properties of undefined"}}
         \cup {[threw |-> FALSE, value |-> undefined]}
         \cup {[threw |-> FALSE, value |-> string(t)] : t \in HostedTexts}

\* generateSmartLocalResponse
localEmergencyText ==
    "(siren) MEDICAL EMERGENCY\n\nPossible heart issue detected.\n\n(ambulance) ACTION PLAN\n(bullet) Call 108/911 immediately.\n(bullet) Do not drive yourself.\n(bullet) Sit down and rest.\n\n---\nPlease treat this as an emergency."

localGeneralText(message) ==
    "(stethoscope) SYMPTOM ANALYSIS\nI have noted your symptoms: \"" \o message
    \o "\".\n\n(pill) GENERAL ADVICE\n(bullet) Rest: Allow your body to recover.\n(bullet) Hydrate: Drink plenty of water.\n(bullet) Monitor: Watch for fever or worsening pain.\n\n(warning) WHEN TO SEE A DOCTOR\n(bullet) If symptoms persist > 24 hours.\n(bullet) If pain becomes severe.\n\n---\nDisclaimer: This is an AI assessment."

generateSmartLocalResponse(message) ==
    LET msg == toLowerCase(message) IN
    IF includes(msg, "chest") \/ (includes(msg, "pain") /\ includes(msg, "left"))
    THEN localEmergencyText
    ELSE localGeneralText(message)

\* extractSymptoms: commonSymptoms.filter(s => message.toLowerCase().includes(s))
commonSymptoms == <<"fever", "headache", "pain", "cough", "nausea", "vomiting",
                    "dizzy", "tired", "chest pain", "rash">>

RECURSIVE filterIncluded(_, _, _)
filterIncluded(list, k, lower) ==
    IF k > Len(list) THEN <<>>
    ELSE (IF includes(lower, list[k]) THEN <<list[k]>> ELSE <<>>)
         \o filterIncluded(list, k + 1, lower)

extractSymptoms(message) == filterIncluded(commonSymptoms, 1, toLowerCase(message))

\* detectSeverity(text), for a text that is a string
detectSeverity(text) ==
    LET lower == toLowerCase(text) IN
    IF includes(lower, "emergency") \/ includes(lower, "call 911")
       \/ includes(lower, "call 108")
    THEN "emergency"
    ELSE IF includes(lower, "seek medical") \/ includes(lower, "consult a doctor")
         THEN "moderate"
         ELSE "low"

detectEmergency(text) == detectSeverity(text) = "emergency"

\* const { message } = req.body
messageOf(req) ==
    IF "message" \in DOMAIN req.body THEN string(req.body.message) ELSE undefined

\* !message?.trim()
isBlankMessage(message) == message.type /= "string" \/ trim(message.value) = ""

\* sendMessage's outer catch (error)
serverError(req, error) ==
    send([req EXCEPT !.caught = error], 500,
         [success |-> FALSE, message |-> "Server error processing request"])

\* sendMessage up to its first await: the message check, then
\* ChatSession.findOne({ _id: sessionId, user: req.user.id })
SendMessageFind(r) ==
    LET req == requests[r]
        session == findSession(req.params.sessionId, req.user.id)
    IN  /\ req.handler = "sendMessage"
        /\ req.pc = "start"
        /\ requests' = [requests EXCEPT ![r] =
              IF isBlankMessage(messageOf(req))
              THEN send(req, 400, [success |-> FALSE, message |-> "Message is required"])
              ELSE IF ~castsToObjectId(req.params.sessionId)
                   THEN serverError(req, "CastError")
              ELSE IF ~truthy(session)
                   THEN send(req, 404, [success |-> FALSE, message |-> "Session not found"])
                   ELSE [req EXCEPT !.session = session, !.pc = "addUserMessage"]]
        /\ UNCHANGED <<serviceVars, env, pageVars, users, sessions, profiles, writes>>

\* await session.addMessage('user', message): a push and a save.  save()
\* rejects when the document is no longer stored.
SendMessageAddUser(r) ==
    LET req == requests[r]
        id == req.session.id
        msg == newMessage("user", req.body.message, <<>>)
    IN  /\ req.handler = "sendMessage"
        /\ req.pc = "addUserMessage"
        /\ IF sessions[id].type = "object"
           THEN /\ sessions' = [sessions EXCEPT ![id] = savePush(@, msg)]
                /\ requests' = [requests EXCEPT ![r] =
                      [req EXCEPT !.session = savePush(@, msg),
                                  !.pc = "findProfile"]]
                /\ writes' = writes \cup
                      {written(r, "ChatSession", id, sessions[id].user, sessions[id].user)}
           ELSE /\ requests' = [requests EXCEPT ![r] =
                      serverError(req, "DocumentNotFoundError")]
                /\ UNCHANGED <<sessions, writes>>
        /\ UNCHANGED <<serviceVars, env, pageVars, users, profiles>>

\* const healthProfile = await HealthProfile.findOne({ user: req.user.id })
SendMessageFindProfile(r) ==
    LET req == requests[r] IN
    /\ req.handler = "sendMessage"
    /\ req.pc = "findProfile"
    /\ requests' = [requests EXCEPT ![r] =
          [req EXCEPT !.healthProfile = findProfile(req.user.id),
                      !.pc = "callFirst"]]
    /\ UNCHANGED <<serviceVars, env, pageVars, users, sessions, profiles, writes>>

\* variant: the next tier is tried whatever the call did
afterCallNextTierAlways(req, modelName, outcome, onThrow) ==
    [req EXCEPT !.tiers = Append(@, [tier |-> modelName, outcome |-> outcome]),
                !.aiResponse = IF outcome.threw THEN @ ELSE outcome.value,
                !.pc = onThrow]

\* aiResponse = await callGeminiClean(..., modelName) inside its try: a value
\* returned is assigned and the handler goes on after the try statement, an
\* error thrown enters the catch block
afterCall(req, modelName, outcome, onThrow) ==
    [req EXCEPT !.tiers = Append(@, [tier |-> modelName, outcome |-> outcome]),
                !.aiResponse = IF outcome.threw THEN @ ELSE outcome.value,
                !.pc = IF outcome.threw THEN onThrow ELSE "addAssistantMessage"]

\* try { aiResponse = await callGeminiClean(..., 'gemini-2.5-flash') }
CallFirst(r) ==
    LET req == requests[r] IN
    /\ req.handler = "sendMessage"
    /\ req.pc = "callFirst"
    /\ \E outcome \in hostedOutcomes :
          requests' = [requests EXCEPT ![r] =
              afterCall(req, "gemini-2.5-flash", outcome, "callSecond")]
    /\ UNCHANGED <<serviceVars, env, pageVars, users, sessions, profiles, writes>>

\* catch (error) { try { aiResponse = await callGeminiClean(...,
\* 'gemini-1.5-flash') }
CallSecond(r) ==
    LET req == requests[r] IN
    /\ req.handler = "sendMessage"
    /\ req.pc = "callSecond"
    /\ \E outcome \in hostedOutcomes :
          requests' = [requests EXCEPT ![r] =
              afterCall(req, "gemini-1.5-flash", outcome, "localBackup")]
    /\ UNCHANGED <<serviceVars, env, pageVars, users, sessions, profiles, writes>>

\* catch (backupError) { aiResponse = generateSmartLocalResponse(message) }
LocalBackup(r) ==
    LET req == requests[r] IN
    /\ req.handler = "sendMessage"
    /\ req.pc = "localBackup"
    /\ requests' = [requests EXCEPT ![r] =
          [req EXCEPT !.tiers = Append(@,
                          [tier |-> "local",
                           outcome |-> [threw |-> FALSE,
                                        value |-> string(generateSmartLocalResponse(
                                                             req.body.message))]]),
                      !.aiResponse = string(generateSmartLocalResponse(req.body.message)),
                      !.pc = "addAssistantMessage"]]
    /\ UNCHANGED <<serviceVars, env, pageVars, users, sessions, profiles, writes>>

\* const symptoms, severity, isEmergency, then await session.addMessage(
\* 'assistant', aiResponse, {...}).  detectSeverity calls text.toLowerCase():
\* a TypeError when aiResponse is undefined.
SendMessageAddAssistant(r) ==
    LET req == requests[r]
        id == req.session.id
        text == req.aiResponse.value
        found == [symptoms |-> extractSymptoms(req.body.message),
                  severity |-> detectSeverity(text),
                  emergency |-> detectEmergency(text)]
        msg == newMessage("assistant", text,
                          [severity |-> found.severity,
                           identifiedSymptoms |-> found.symptoms])
    IN  /\ req.handler = "sendMessage"
        /\ req.pc = "addAssistantMessage"
        /\ IF /\ req.aiResponse.type = "string"
              /\ validMessage(msg)
              /\ sessions[id].type = "object"
           THEN /\ sessions' = [sessions EXCEPT ![id] = savePush(@, msg)]
                /\ requests' = [requests EXCEPT ![r] =
                      [req EXCEPT !.session = savePush(@, msg),
                                  !.analysis = found,
                                  !.pc = "saveSummary"]]
                /\ writes' = writes \cup
                      {written(r, "ChatSession", id, sessions[id].user, sessions[id].user)}
           ELSE /\ requests' = [requests EXCEPT ![r] =
                      serverError(req,
                          IF req.aiResponse.type /= "string" THEN "TypeError"
                          ELSE IF ~validMessage(msg) THEN "ValidationError"
                          ELSE "DocumentNotFoundError")]
                /\ UNCHANGED <<sessions, writes>>
        /\ UNCHANGED <<serviceVars, env, pageVars, users, profiles>>

\* variant: save() stores the whole document as this request holds it
saveSummaryWholeDocument(stored, doc, isEmergency) == doc

\* await session.save() after the assignments to session.summary: save()
\* stores the paths that were assigned, and leaves the others as stored
saveSummary(stored, doc, isEmergency) ==
    [stored EXCEPT !.summary =
        withField([@ EXCEPT !.emergencyFlagged = IF isEmergency THEN TRUE ELSE @],
                  "overallSeverity", doc.summary.overallSeverity)]

\* if (isEmergency) session.summary.emergencyFlagged = true;
\* session.summary.overallSeverity = severity; await session.save();
\* res.json({ success: true, data: {...} })
SendMessageSave(r) ==
    LET req == requests[r]
        id == req.session.id
        doc == [req.session EXCEPT !.summary =
                   withField([@ EXCEPT !.emergencyFlagged =
                                  IF req.analysis.emergency THEN TRUE ELSE @],
                             "overallSeverity", req.analysis.severity)]
    IN  /\ req.handler = "sendMessage"
        /\ req.pc = "saveSummary"
        /\ IF sessions[id].type = "object"
           THEN /\ sessions' = [sessions EXCEPT ![id] = saveSummary(@, doc, req.analysis.emergency)]
                /\ requests' = [requests EXCEPT ![r] =
                      send([req EXCEPT !.session = doc], 200,
                           [success |-> TRUE,
                            data |-> [message |-> req.aiResponse,
                                      analysis |-> req.analysis]])]
                /\ writes' = writes \cup
                      {written(r, "ChatSession", id, sessions[id].user, sessions[id].user)}
           ELSE /\ requests' = [requests EXCEPT ![r] =
                      serverError(req, "DocumentNotFoundError")]
                /\ UNCHANGED <<sessions, writes>>
        /\ UNCHANGED <<serviceVars, env, pageVars, users, profiles>>

-----------------------------------------------------------------------------
(* createSession, completeSession, deleteSession *)

welcomeMessage ==
    "Hello! (wave) I'm your MEDI-360 AI assistant.\n\nI can help you with:\n(stethoscope) Checking Symptoms\n(pill) Home Remedies\n(ambulance) When to see a Doctor\n\nPlease describe what you're feeling in detail."

\* the document ChatSession.create stores, with the schema's defaults
newSession(id, userId, sessionType) ==
    [type |-> "object", id |-> id, user |-> userId, sessionType |-> sessionType,
     messages |-> <<>>,
     summary |-> [reportedSymptoms |-> <<>>, emergencyFlagged |-> FALSE],
     status |-> "active",
     version |-> 0]

\* the id the next created session gets: one that was never used
freshSessionId == IF sessions["s1"] = null THEN "s1" ELSE "s2"

\* const session = await ChatSession.create({ user: req.user.id, ... })
CreateSession(r) ==
    LET req == requests[r]
        id == freshSessionId
        doc == newSession(id, req.user.id,
                          IF "sessionType" \in DOMAIN req.body
                          THEN req.body.sessionType ELSE "symptom-check")
    IN  /\ req.handler = "createSession"
        /\ req.pc = "start"
        /\ \E free \in SessionIds : sessions[free] = null
        /\ sessions' = [sessions EXCEPT ![id] = doc]
        /\ requests' = [requests EXCEPT ![r] =
              [req EXCEPT !.session = doc, !.pc = "addWelcome"]]
        /\ writes' = writes \cup {written(r, "ChatSession", id, "none", doc.user)}
        /\ UNCHANGED <<serviceVars, env, pageVars, users, profiles>>

\* await session.addMessage('system', welcomeMessage, {...});
\* res.status(201).json(...).  The metadata passed, aiPowered and provider,
\* has no path in MessageSchema and is not stored.
CreateSessionWelcome(r) ==
    LET req == requests[r]
        id == req.session.id
        msg == newMessage("system", welcomeMessage, <<>>)
    IN  /\ req.handler = "createSession"
        /\ req.pc = "addWelcome"
        /\ IF sessions[id].type = "object"
           THEN /\ sessions' = [sessions EXCEPT ![id] = savePush(@, msg)]
                /\ requests' = [requests EXCEPT ![r] =
                      send([req EXCEPT !.session = savePush(@, msg)], 201,
                           [success |-> TRUE])]
                /\ writes' = writes \cup
                      {written(r, "ChatSession", id, sessions[id].user, sessions[id].user)}
           ELSE /\ requests' = [requests EXCEPT ![r] = nextError(req, "DocumentNotFoundError")]
                /\ UNCHANGED <<sessions, writes>>
        /\ UNCHANGED <<serviceVars, env, pageVars, users, profiles>>

\* analyzeSymptoms collecting into an array instead of a Set
collectSymptomsRepeated(found, list) == found \o list

\* ChatSessionSchema.methods.analyzeSymptoms: the symptoms of the messages
\* without repetition, in the order met
RECURSIVE collectSymptoms(_, _)
collectSymptoms(found, list) ==
    IF Len(list) = 0 THEN found
    ELSE collectSymptoms(
            IF \E i \in 1..Len(found) : found[i] = Head(list) THEN found
            ELSE Append(found, Head(list)),
            Tail(list))

RECURSIVE sessionSymptoms(_, _, _)
sessionSymptoms(found, messages, k) ==
    IF k > Len(messages) THEN found
    ELSE sessionSymptoms(
            IF "identifiedSymptoms" \in DOMAIN messages[k].metadata
            THEN collectSymptoms(found, messages[k].metadata.identifiedSymptoms)
            ELSE found,
            messages, k + 1)

\* the severities pushed: those of the messages that have one
severitiesOf(messages) ==
    {messages[k].metadata.severity :
        k \in {i \in 1..Len(messages) : "severity" \in DOMAIN messages[i].metadata}}

sessionAnalyzeSymptoms(doc) ==
    LET severities == severitiesOf(doc.messages) IN
    [symptoms |-> sessionSymptoms(<<>>, doc.messages, 1),
     overallSeverity |-> IF "emergency" \in severities THEN "emergency"
                         ELSE IF "high" \in severities THEN "high"
                         ELSE IF "moderate" \in severities THEN "moderate"
                         ELSE "low",
     messageCount |-> Len(doc.messages)]

\* ChatSessionSchema.methods.completeSession, before its save()
completedDocument(doc) ==
    LET analysis == sessionAnalyzeSymptoms(doc) IN
    [doc EXCEPT !.summary =
                    withField([@ EXCEPT !.reportedSymptoms =
                                   [i \in 1..Len(analysis.symptoms) |->
                                       [symptom |-> analysis.symptoms[i],
                                        severity |-> analysis.overallSeverity]]],
                              "overallSeverity", analysis.overallSeverity),
                !.status = "completed"]

\* the save() of completeSession stores the paths it assigned
saveCompleted(stored, doc) ==
    [stored EXCEPT !.summary =
                       withField([@ EXCEPT !.reportedSymptoms =
                                      doc.summary.reportedSymptoms],
                                 "overallSeverity", doc.summary.overallSeverity),
                   !.status = doc.status,
                   !.version = @ + 1]

\* const session = await ChatSession.findOne({...}); without a session the
\* handler answers at once
CompleteSessionFind(r) ==
    LET req == requests[r]
        session == findSession(req.params.sessionId, req.user.id)
    IN  /\ req.handler = "completeSession"
        /\ req.pc = "start"
        /\ requests' = [requests EXCEPT ![r] =
              IF ~castsToObjectId(req.params.sessionId)
              THEN nextError(req, "CastError")
              ELSE IF truthy(session)
              THEN [req EXCEPT !.session = session, !.pc = "complete"]
              ELSE send(req, 200, [success |-> TRUE, message |-> "Session completed"])]
        /\ UNCHANGED <<serviceVars, env, pageVars, users, sessions, profiles, writes>>

\* await session.completeSession(); res.json(...).  The save() assigns a
\* whole array (summary.reportedSymptoms), which the store accepts only for
\* the version the document was loaded with when it checks versions: for a
\* document pushed to since, the save is either rejected (VersionError) or
\* stored.
CompleteSessionSave(r) ==
    LET req == requests[r]
        id == req.session.id
        doc == completedDocument(req.session)
    IN  /\ req.handler = "completeSession"
        /\ req.pc = "complete"
        /\ \/ /\ sessions[id].type = "object"
              /\ sessions' = [sessions EXCEPT ![id] = saveCompleted(@, doc)]
              /\ requests' = [requests EXCEPT ![r] =
                    send([req EXCEPT !.session = doc], 200,
                         [success |-> TRUE, message |-> "Session completed"])]
              /\ writes' = writes \cup
                    {written(r, "ChatSession", id, sessions[id].user, sessions[id].user)}
           \/ /\ IF sessions[id].type = "object"
                 THEN sessions[id].version /= req.session.version
                 ELSE TRUE
              /\ requests' = [requests EXCEPT ![r] =
                    nextError(req, IF sessions[id].type = "object"
                                   THEN "VersionError" ELSE "DocumentNotFoundError")]
              /\ UNCHANGED <<sessions, writes>>
        /\ UNCHANGED <<serviceVars, env, pageVars, users, profiles>>

\* await ChatSession.findOneAndDelete({ _id: sessionId, user: req.user.id });
\* res.json(...)
DeleteSession(r) ==
    LET req == requests[r]
        session == findSession(req.params.sessionId, req.user.id)
    IN  /\ req.handler = "deleteSession"
        /\ req.pc = "start"
        /\ requests' = [requests EXCEPT ![r] =
              IF ~castsToObjectId(req.params.sessionId)
              THEN nextError(req, "CastError")
              ELSE send(req, 200, [success |-> TRUE, message |-> "Session deleted"])]
        /\ IF truthy(session)
           THEN /\ sessions' = [sessions EXCEPT ![session.id] = deleted]
                /\ writes' = writes \cup
                      {written(r, "ChatSession", session.id, session.user, "none")}
           ELSE UNCHANGED <<sessions, writes>>
        /\ UNCHANGED <<serviceVars, env, pageVars, users, profiles>>

-----------------------------------------------------------------------------
(* createProfile, updateProfile, deleteProfile *)

freshProfileId == IF profiles["p1"] = null THEN "p1" ELSE "p2"

\* the bodies a client may send to the profile routes
ProfileBodies == {[age |-> 41]} \cup {[age |-> 41, user |-> u] : u \in UserIds}

\* const profileData = { user: req.user.id, ...req.body }: a key of the body
\* replaces the key written before the spread
profileData(req) ==
    [user |-> IF "user" \in DOMAIN req.body THEN req.body.user ELSE req.user.id,
     age |-> req.body.age]

\* a collection without the unique index on user
uniqueUserNotIndexed(id, userId) == TRUE

\* the unique index on user: no other stored profile has this user
uniqueUser(id, userId) ==
    \A p \in ProfileIds :
        (p /= id /\ profiles[p].type = "object") => profiles[p].user /= userId

\* const existingProfile = await HealthProfile.findOne({ user: req.user.id })
CreateProfileFind(r) ==
    LET req == requests[r]
        existingProfile == findProfile(req.user.id)
    IN  /\ req.handler = "createProfile"
        /\ req.pc = "start"
        /\ requests' = [requests EXCEPT ![r] =
              IF truthy(existingProfile)
              THEN send(req, 400, [success |-> FALSE,
                                   message |-> "Health profile already exists. Use update endpoint instead."])
              ELSE [req EXCEPT !.pc = "create"]]
        /\ UNCHANGED <<serviceVars, env, pageVars, users, sessions, profiles, writes>>

\* const profile = await HealthProfile.create(profileData);
\* res.status(201).json(...); a duplicate key goes to next(error)
CreateProfileCreate(r) ==
    LET req == requests[r]
        id == freshProfileId
        data == profileData(req)
        doc == [type |-> "object", id |-> id, user |-> data.user, age |-> data.age]
    IN  /\ req.handler = "createProfile"
        /\ req.pc = "create"
        /\ \E free \in ProfileIds : profiles[free] = null
        /\ IF uniqueUser(id, data.user)
           THEN /\ profiles' = [profiles EXCEPT ![id] = doc]
                /\ requests' = [requests EXCEPT ![r] =
                      send([req EXCEPT !.healthProfile = doc], 201,
                           [success |-> TRUE,
                            message |-> "Health profile created successfully"])]
                /\ writes' = writes \cup
                      {written(r, "HealthProfile", id, "none", doc.user)}
           ELSE /\ requests' = [requests EXCEPT ![r] = nextError(req, "duplicate key")]
                /\ UNCHANGED <<profiles, writes>>
        /\ UNCHANGED <<serviceVars, env, pageVars, users, sessions>>

\* let profile = await HealthProfile.findOne({ user: req.user.id })
UpdateProfileFind(r) ==
    LET req == requests[r]
        profile == findProfile(req.user.id)
    IN  /\ req.handler = "updateProfile"
        /\ req.pc = "start"
        /\ requests' = [requests EXCEPT ![r] =
              IF truthy(profile)
              THEN [req EXCEPT !.healthProfile = profile, !.pc = "save"]
              ELSE send(req, 404, [success |-> FALSE,
                                   message |-> "Health profile not found. Please create one first."])]
        /\ UNCHANGED <<serviceVars, env, pageVars, users, sessions, profiles, writes>>

\* Object.keys(req.body).forEach(key => { profile[key] = req.body[key] });
\* profile.lastReviewedBy = req.user.id
updatedProfile(profile, req) ==
    withField([profile EXCEPT
                   !.user = IF "user" \in DOMAIN req.body THEN req.body.user ELSE @,
                   !.age = IF "age" \in DOMAIN req.body THEN req.body.age ELSE @],
              "lastReviewedBy", req.user.id)

\* await profile.save(); res.status(200).json(...)
UpdateProfileSave(r) ==
    LET req == requests[r]
        id == req.healthProfile.id
        doc == updatedProfile(req.healthProfile, req)
    IN  /\ req.handler = "updateProfile"
        /\ req.pc = "save"
        /\ IF profiles[id].type = "object" /\ uniqueUser(id, doc.user)
           THEN /\ profiles' = [profiles EXCEPT ![id] =
                      withField([@ EXCEPT !.user = doc.user, !.age = doc.age],
                                "lastReviewedBy", doc.lastReviewedBy)]
                /\ requests' = [requests EXCEPT ![r] =
                      send([req EXCEPT !.healthProfile = doc], 200,
                           [success |-> TRUE,
                            message |-> "Health profile updated successfully"])]
                /\ writes' = writes \cup
                      {written(r, "HealthProfile", id, profiles[id].user, doc.user)}
           ELSE /\ requests' = [requests EXCEPT ![r] =
                      nextError(req, IF profiles[id].type = "object"
                                     THEN "duplicate key" ELSE "DocumentNotFoundError")]
                /\ UNCHANGED <<profiles, writes>>
        /\ UNCHANGED <<serviceVars, env, pageVars, users, sessions>>

\* const profile = await HealthProfile.findOneAndDelete({ user: req.user.id })
DeleteProfile(r) ==
    LET req == requests[r]
        profile == findProfile(req.user.id)
    IN  /\ req.handler = "deleteProfile"
        /\ req.pc = "start"
        /\ IF truthy(profile)
           THEN /\ profiles' = [profiles EXCEPT ![profile.id] = deleted]
                /\ requests' = [requests EXCEPT ![r] =
                      send(req, 200, [success |-> TRUE,
                                      message |-> "Health profile deleted successfully"])]
                /\ writes' = writes \cup
                      {written(r, "HealthProfile", profile.id, profile.user, "none")}
           ELSE /\ requests' = [requests EXCEPT ![r] =
                      send(req, 404, [success |-> FALSE,
                                      message |-> "Health profile not found"])]
                /\ UNCHANGED <<profiles, writes>>
        /\ UNCHANGED <<serviceVars, env, pageVars, users, sessions>>

-----------------------------------------------------------------------------
(* One sendMessage request *)

\* no call of analyzeSymptoms is in progress
NoCall ==
    /\ symptoms = <<>>
    /\ healthProfile = null
    /\ pc = "idle"
    /\ normalizedSymptoms = <<>>
    /\ emergencyDetected = FALSE
    /\ severityScore = -1
    /\ severity = ""
    /\ possibleConditions = <<>>
    /\ recommendations = <<>>
    /\ result = undefined
    /\ response = undefined
    /\ staticTables = [symptomDatabase |-> symptomDatabase,
                       emergencySymptoms |-> emergencySymptoms]
    /\ callArgs = <<>>
    /\ observed = <<>>
    /\ calls = 0

\* the messages a client may send: none, blank, one with each of the 8
\* emergency keywords, one the local backup takes for an emergency, and
\* ordinary ones
ChatMessages == {
    "",
    "   ",
    "I have Chest Pain since morning",
    "difficulty breathing",
    "sudden confusion",
    "loss of consciousness",
    "severe bleeding",
    "stroke symptoms",
    "severe allergic reaction",
    "I have suicidal thoughts",
    "pain in my left arm",
    "mild headache and fever" }

\* a session with its welcome message
openedSession(id, userId) ==
    savePush(newSession(id, userId, "symptom-check"),
             newMessage("system", welcomeMessage, <<>>))

\* a stored health profile
storedProfile(id, userId) ==
    [type |-> "object", id |-> id, user |-> userId, age |-> 41]

\* a request as protect hands it to a handler: req.user is the active user
\* the token named
request(handler, userId, sessionId, body) ==
    [idleRequest EXCEPT
        !.handler = handler, !.pc = "start", !.number = 1,
        !.user = [type |-> "object", id |-> userId, isActive |-> TRUE],
        !.params = [sessionId |-> sessionId], !.body = body]

allActive == [u \in UserIds |-> [type |-> "object", id |-> u, isActive |-> TRUE]]

InitChat ==
    /\ NoCall
    /\ NoChatPage
    /\ env \in {<<>>, [GEMINI_API_KEY |-> "key"]}
    /\ users = allActive
    /\ sessions = [id \in SessionIds |->
                      IF id = "s1" THEN openedSession("s1", "u1") ELSE null]
    /\ profiles \in {[id \in ProfileIds |-> null],
                     [id \in ProfileIds |->
                         IF id = "p1" THEN storedProfile("p1", "u1") ELSE null]}
    /\ \E u \in UserIds, s \in SessionIds \cup {"abc"},
          b \in {<<>>} \cup {[message |-> m] : m \in ChatMessages} :
          requests = [r \in RequestIds |->
                         IF r = "r1" THEN request("sendMessage", u, s, b)
                         ELSE idleRequest]
    /\ writes = {}

NextChat ==
    \E r \in RequestIds :
        \/ SendMessageFind(r)
        \/ SendMessageAddUser(r)
        \/ SendMessageFindProfile(r)
        \/ CallFirst(r)
        \/ CallSecond(r)
        \/ LocalBackup(r)
        \/ SendMessageAddAssistant(r)
        \/ SendMessageSave(r)

SpecChat == InitChat /\ [][NextChat]_vars

-----------------------------------------------------------------------------
(* C15, C16, C17: the response tiers of sendMessage *)

\* the tier threw
Threw(call) == call.outcome.threw

\* C15: in every sendMessage request the tiers are called in the order
\* first hosted model, second hosted model, local backup: the first call made
\* is to the first hosted model; the second hosted model is called only as
\* the second call and after the first one threw; the local backup only as
\* the third, after both hosted calls threw; a tier that returned is the last
\* one called; and the handler goes on to use aiResponse only once a tier
\* has returned.
C15_FallbackChainOrder ==
    \A r \in RequestIds :
        LET tiers == requests[r].tiers IN
        /\ Len(tiers) <= 3
        /\ \A i \in 1..Len(tiers) :
              /\ tiers[i].tier = <<"gemini-2.5-flash", "gemini-1.5-flash", "local">>[i]
              /\ i < Len(tiers) => Threw(tiers[i])
        /\ requests[r].pc \in {"addAssistantMessage", "saveSummary"} =>
              /\ Len(tiers) >= 1
              /\ ~Threw(tiers[Len(tiers)])
        /\ requests[r].pc = "callSecond" => (Len(tiers) = 1 /\ Threw(tiers[1]))
        /\ requests[r].pc = "localBackup" => (Len(tiers) = 2 /\ Threw(tiers[2]))

\* a request answered from the local backup after the first hosted call
\* failed on the network and the second on the status
C15_Witness ==
    \E r \in RequestIds :
        /\ requests[r].pc = "done"
        /\ Len(requests[r].tiers) = 3
        /\ requests[r].tiers[1].outcome.error = "fetch failed"
        /\ requests[r].tiers[2].outcome.error = "Status 429"
        /\ requests[r].tiers[3].tier = "local"
        /\ Len(requests[r].sent) = 1
        /\ requests[r].sent[1].body.success

\* the request is a sendMessage that has been answered, its message was not
\* blank and its session is one of the requester's
AnsweredOnOwnSession(r) ==
    /\ requests[r].handler = "sendMessage"
    /\ requests[r].pc = "done"
    /\ ~isBlankMessage(messageOf(requests[r]))
    /\ truthy(findSession(requests[r].params.sessionId, requests[r].user.id))

\* C16: a sendMessage request with a non-blank message on an existing
\* session of the requester is answered with success true and a non-empty
\* assistant message, whatever the hosted calls did, unless a storage
\* operation was rejected.
C16_HostedFailureNeverSurfaced ==
    \A r \in RequestIds :
        (/\ AnsweredOnOwnSession(r)
         /\ requests[r].caught \notin {"ValidationError", "DocumentNotFoundError"})
        => /\ Len(requests[r].sent) = 1
           /\ requests[r].sent[1].body.success = TRUE
           /\ requests[r].sent[1].body.data.message.type = "string"
           /\ requests[r].sent[1].body.data.message.value /= ""

\* the first hosted call returned a body whose parts[0] has no text, and the
\* request was answered 500 with success false
HostedBodyWithoutTextSurfaced ==
    \E r \in RequestIds :
        /\ AnsweredOnOwnSession(r)
        /\ Len(requests[r].tiers) = 1
        /\ requests[r].tiers[1].outcome = [threw |-> FALSE, value |-> undefined]
        /\ requests[r].caught = "TypeError"
        /\ requests[r].sent = <<[status |-> 500,
                                 body |-> [success |-> FALSE,
                                           message |-> "Server error processing request"]]>>

\* What holds of C16: when every hosted call threw, or returned a non-empty
\* text, the request is answered with success true and a non-empty message
ThrownHostedFailureNotSurfaced ==
    \A r \in RequestIds :
        (/\ AnsweredOnOwnSession(r)
         /\ \A i \in 1..Len(requests[r].tiers) :
               \/ Threw(requests[r].tiers[i])
               \/ /\ requests[r].tiers[i].outcome.value.type = "string"
                  /\ requests[r].tiers[i].outcome.value.value /= "")
        => /\ Len(requests[r].sent) = 1
           /\ requests[r].sent[1].body.success = TRUE
           /\ requests[r].sent[1].body.data.message.value /= ""

\* the message contains one of the 8 emergency keywords
HasEmergencyKeyword(message) ==
    \E k \in 1..Len(emergencySymptoms) : includes(message, emergencySymptoms[k])

\* C17: when both hosted calls of a sendMessage request failed and the
\* message contains one of the 8 emergency keywords, the answer reports
\* severity 'emergency' and emergency true, and the session's
\* summary.emergencyFlagged is true.
C17_EmergencySurvivesFallback ==
    \A r \in RequestIds :
        (/\ AnsweredOnOwnSession(r)
         /\ Len(requests[r].tiers) = 3
         /\ HasEmergencyKeyword(requests[r].body.message))
        => /\ requests[r].sent[1].body.success = TRUE
           /\ requests[r].sent[1].body.data.analysis.severity = "emergency"
           /\ requests[r].sent[1].body.data.analysis.emergency = TRUE
           /\ sessions[requests[r].params.sessionId].summary.emergencyFlagged = TRUE

\* the message 'I have suicidal thoughts' answered from the local backup as
\* severity 'low', the session not flagged
KeywordAnsweredLowByLocalBackup ==
    \E r \in RequestIds :
        /\ AnsweredOnOwnSession(r)
        /\ Len(requests[r].tiers) = 3
        /\ requests[r].body.message = "I have suicidal thoughts"
        /\ requests[r].sent[1].body.data.analysis.severity = "low"
        /\ requests[r].sent[1].body.data.analysis.emergency = FALSE
        /\ sessions[requests[r].params.sessionId].summary.emergencyFlagged = FALSE

-----------------------------------------------------------------------------
(* The server: requests of all handlers, by both users, two at a time *)

\* the most requests received in one behaviour
MaxRequests == 3

\* the requests received so far
Received == requests["r1"].number + requests["r2"].number

\* the requests a client may send, as protect hands them on
ApiRequests ==
    {request(h, u, "", b) :
        h \in {"createProfile", "updateProfile"}, u \in UserIds, b \in ProfileBodies}
    \cup {request(h, u, "", <<>>) :
        h \in {"deleteProfile", "createSession"}, u \in UserIds}
    \cup {request(h, u, s, <<>>) :
        h \in {"completeSession", "deleteSession"}, u \in UserIds, s \in SessionIds}
    \cup {request("sendMessage", u, s, [message |-> "I have Chest Pain since morning"]) :
        u \in UserIds, s \in SessionIds}

\* a request arrives in a free slot
Receive(r) ==
    /\ requests[r].pc \in {"idle", "done"}
    /\ Received < MaxRequests
    /\ \E req \in ApiRequests :
          requests' = [requests EXCEPT ![r] =
              [req EXCEPT !.number = requests[r].number + 1]]
    /\ UNCHANGED <<serviceVars, env, pageVars, users, sessions, profiles, writes>>

InitApi ==
    /\ NoCall
    /\ NoChatPage
    /\ env = <<>>
    /\ users = allActive
    /\ sessions \in {[id \in SessionIds |-> null],
                     [id \in SessionIds |->
                         IF id = "s1" THEN openedSession("s1", "u1") ELSE null]}
    /\ profiles \in {[id \in ProfileIds |-> null],
                     [id \in ProfileIds |->
                         IF id = "p1" THEN storedProfile("p1", "u1") ELSE null]}
    /\ requests = [r \in RequestIds |-> idleRequest]
    /\ writes = {}

NextApi ==
    \E r \in RequestIds :
        \/ Receive(r)
        \/ CreateProfileFind(r)
        \/ CreateProfileCreate(r)
        \/ UpdateProfileFind(r)
        \/ UpdateProfileSave(r)
        \/ DeleteProfile(r)
        \/ CreateSession(r)
        \/ CreateSessionWelcome(r)
        \/ SendMessageFind(r)
        \/ SendMessageAddUser(r)
        \/ SendMessageFindProfile(r)
        \/ CallFirst(r)
        \/ CallSecond(r)
        \/ LocalBackup(r)
        \/ SendMessageAddAssistant(r)
        \/ SendMessageSave(r)
        \/ CompleteSessionFind(r)
        \/ CompleteSessionSave(r)
        \/ DeleteSession(r)

SpecApi == InitApi /\ [][NextApi]_vars

-----------------------------------------------------------------------------
(* C18, C20: ownership of the documents written, and the status of a session *)

\* C18: every health profile and chat session that a request created,
\* modified or deleted has its user field equal to the id of the requester of
\* that request, before the request and after it
C18_WritesStayWithRequester ==
    \A w \in writes :
        /\ w.before \in {"none", w.requester}
        /\ w.after \in {"none", w.requester}

\* the chat sessions a request writes to are the requester's (every session
\* is found with user: req.user.id, and no handler assigns its user)
SessionWritesStayWithRequester ==
    \A w \in {v \in writes : v.collection = "ChatSession"} :
        /\ w.before \in {"none", w.requester}
        /\ w.after \in {"none", w.requester}

\* createProfile stored a profile of another user than its requester
ProfileCreatedForAnotherUser ==
    \E w \in writes :
        /\ w.collection = "HealthProfile"
        /\ w.before = "none"
        /\ w.after \notin {"none", w.requester}

\* updateProfile handed the requester's profile to another user
ProfileHandedToAnotherUser ==
    \E w \in writes :
        /\ w.collection = "HealthProfile"
        /\ w.before = w.requester
        /\ w.after \notin {"none", w.requester}

\* the place of a status on active -> completed -> archived
statusRank(status) ==
    CASE status = "active" -> 1
      [] status = "completed" -> 2
      [] status = "archived" -> 3

\* C20: a session is created active; completeSession makes the session it
\* loaded completed (its save is stored whenever the session was not pushed
\* to or deleted since it was loaded, and a stored save leaves the session
\* completed); and no step of a createSession, sendMessage or completeSession
\* request (nor of any other handler) moves the status of a stored session
\* backwards: a completed session never becomes active again
C20_StatusOnlyMovesForward ==
    [][\A id \in SessionIds :
          /\ (sessions[id] = null /\ sessions'[id] /= null)
                => ownerOf(sessions'[id]) /= "none" /\ sessions'[id].status = "active"
          /\ (sessions[id].type = "object" /\ sessions'[id].type = "object")
                => statusRank(sessions[id].status) <= statusRank(sessions'[id].status)
          /\ \A r \in RequestIds :
                ( /\ requests[r].handler = "completeSession"
                  /\ requests[r].pc = "complete"
                  /\ requests[r].session.id = id
                  /\ requests'[r].pc = "done"
                  /\ requests'[r].caught = "" )
                => sessions'[id].status = "completed"
          /\ \A r \in RequestIds :
                ( /\ requests[r].handler = "completeSession"
                  /\ requests[r].pc = "complete"
                  /\ requests[r].session.id = id
                  /\ requests'[r].pc = "done"
                  /\ sessions[id].type = "object"
                  /\ sessions[id].version = requests[r].session.version )
                => requests'[r].caught = ""]_vars

\* a sendMessage that loaded its session while it was active has stored its
\* summary after a completeSession completed the session, and the session is
\* still completed
C20_Witness ==
    \E r \in RequestIds :
        /\ requests[r].handler = "sendMessage"
        /\ requests[r].pc = "done"
        /\ requests[r].caught = ""
        /\ Len(requests[r].sent) = 1
        /\ requests[r].sent[1].status = 200
        /\ requests[r].session.type = "object"
        /\ requests[r].session.status = "active"
        /\ sessions[requests[r].session.id].type = "object"
        /\ sessions[requests[r].session.id].status = "completed"
        /\ "overallSeverity" \in DOMAIN sessions[requests[r].session.id].summary
        /\ sessions[requests[r].session.id].summary.emergencyFlagged

-----------------------------------------------------------------------------
(* The protect middleware in front of every protected route *)

\* String.prototype.startsWith
startsWith(str, prefix) ==
    Len(str) >= Len(prefix) /\ SubSeq(str, 1, Len(prefix)) = prefix

\* String.prototype.split with a separator of one character
RECURSIVE split(_, _)
split(str, separator) ==
    LET at == {i \in 1..Len(str) : SubSeq(str, i, i) = separator} IN
    IF at = {} THEN <<str>>
    ELSE LET i == CHOOSE k \in at : \A j \in at : k <= j
         IN  <<SubSeq(str, 1, i - 1)>> \o split(SubSeq(str, i + 1, Len(str)), separator)

\* the tokens signed with process.env.JWT_SECRET, with the id of their payload
\* and whether their lifetime is over
signedTokens ==
    ("tok-u1" :> [id |-> "u1", expired |-> FALSE])
    @@ ("tok-u2" :> [id |-> "u2", expired |-> FALSE])
    @@ ("tok-old" :> [id |-> "u1", expired |-> TRUE])

\* jwt.verify(token, process.env.JWT_SECRET): the payload, or a throw for a
\* token that is missing, not a signed one, or expired
jwtVerify(token) ==
    IF token.type /= "string" \/ token.value \notin DOMAIN signedTokens
    THEN [threw |-> TRUE, name |-> "JsonWebTokenError", id |-> ""]
    ELSE IF signedTokens[token.value].expired
    THEN [threw |-> TRUE, name |-> "TokenExpiredError", id |-> ""]
    ELSE [threw |-> FALSE, name |-> "", id |-> signedTokens[token.value].id]

\* a token that is a non-empty string
truthyToken(token) == token.type = "string" /\ token.value /= ""

\* the statements after the if block of protect: if (!token) return 401
afterTry(req) ==
    IF ~truthyToken(req.token)
    THEN send(req, 401, [success |-> FALSE,
                         message |-> "Not authorized - no token provided"])
    ELSE [req EXCEPT !.pc = "done"]

\* a catch block that answers and goes on to the statements after the try
caughtFallsThrough(req, name) ==
    afterTry(send([req EXCEPT !.caught = name], 401,
                  [success |-> FALSE,
                   message |-> IF name = "TokenExpiredError"
                               THEN "Token has expired - please login again"
                               ELSE "Not authorized - invalid token"]))

\* the catch block of protect: each branch returns its 401 response
caught(req, name) ==
    send([req EXCEPT !.caught = name], 401,
         [success |-> FALSE,
          message |-> IF name = "TokenExpiredError"
                      THEN "Token has expired - please login again"
                      ELSE "Not authorized - invalid token"])

\* protect up to its await: the header test, the token, jwt.verify
ProtectVerify(r) ==
    LET req == requests[r] IN
    /\ req.handler = "protect"
    /\ req.pc = "start"
    /\ requests' = [requests EXCEPT ![r] =
          IF /\ "authorization" \in DOMAIN req.headers
             /\ req.headers.authorization /= ""
             /\ startsWith(req.headers.authorization, "Bearer")
          THEN LET parts == split(req.headers.authorization, " ")
                   token == IF Len(parts) >= 2 THEN string(parts[2]) ELSE undefined
                   decoded == jwtVerify(token)
                   got == [req EXCEPT !.token = token]
               IN  IF decoded.threw THEN caught(got, decoded.name)
                   ELSE [got EXCEPT !.decoded = [type |-> "object", id |-> decoded.id],
                                    !.pc = "findById"]
          ELSE afterTry(req)]
    /\ UNCHANGED <<serviceVars, env, pageVars, users, sessions, profiles, writes>>

\* req.user = await User.findById(decoded.id).select('-password'), the two
\* tests of req.user, next(); the query may also reject
ProtectFindUser(r) ==
    LET req == requests[r]
        found == [req EXCEPT !.user = users[req.decoded.id]]
    IN  /\ req.handler = "protect"
        /\ req.pc = "findById"
        /\ \/ requests' = [requests EXCEPT ![r] = caught(req, "MongoError")]
           \/ requests' = [requests EXCEPT ![r] =
                 IF ~truthy(found.user)
                 THEN send(found, 401, [success |-> FALSE,
                                        message |-> "User not found - token invalid"])
                 ELSE IF ~found.user.isActive
                 THEN send(found, 401, [success |-> FALSE,
                                        message |-> "User account is deactivated"])
                 ELSE afterTry([found EXCEPT !.nextCalls = Append(@, "next")])]
        /\ UNCHANGED <<serviceVars, env, pageVars, users, sessions, profiles, writes>>

\* the Authorization headers a client may send; <<>> is a request without one
Headers ==
    {<<>>}
    \cup {[authorization |-> h] :
            h \in {"", "Basic abc", "bearer tok-u1", "Bearer", "Bearer ",
                   "Bearer tok-u1", "Bearer tok-u2", "Bearer tok-old",
                   "Bearer tok-bad", "Bearer  tok-u1", "BearerX tok-u2",
                   "Bearer tok-u1 extra"}}

\* the users collection: a user may be stored active, stored deactivated, or
\* not stored
UserTables ==
    [UserIds -> {null} \cup {[type |-> "object", id |-> u, isActive |-> a] :
                                u \in UserIds, a \in BOOLEAN}]

InitProtect ==
    /\ NoCall
    /\ NoChatPage
    /\ env = [JWT_SECRET |-> "secret"]
    /\ users \in {t \in UserTables : \A u \in UserIds : t[u] /= null => t[u].id = u}
    /\ sessions = [id \in SessionIds |-> null]
    /\ profiles = [id \in ProfileIds |-> null]
    /\ requests \in [RequestIds ->
          {[idleRequest EXCEPT !.handler = "protect", !.pc = "start",
                               !.number = 1, !.headers = h] : h \in Headers}]
    /\ writes = {}

NextProtect ==
    \E r \in RequestIds :
        \/ ProtectVerify(r)
        \/ ProtectFindUser(r)

SpecProtect == InitProtect /\ [][NextProtect]_vars

\* the request carries a signed, unexpired token after the first space of a
\* header that starts with Bearer, and the token's user is stored and active
Authentic(req) ==
    /\ "authorization" \in DOMAIN req.headers
    /\ LET h == req.headers.authorization IN
       \E t \in {k \in DOMAIN signedTokens : ~signedTokens[k].expired} :
          /\ truthy(users[signedTokens[t].id])
          /\ users[signedTokens[t].id].isActive
          /\ \E i \in 7..Len(h) :
                /\ SubSeq(h, 1, 6) = "Bearer"
                /\ SubSeq(h, i, i) = " "
                /\ \A j \in 1..(i - 1) : SubSeq(h, j, j) /= " "
                /\ Len(h) >= i + Len(t)
                /\ SubSeq(h, i + 1, i + Len(t)) = t
                /\ (Len(h) = i + Len(t) \/ SubSeq(h, i + Len(t) + 1, i + Len(t) + 1) = " ")

\* C19: for every request, protect either calls next exactly once and sends
\* nothing, and only for a request whose Bearer token verifies and whose user
\* is stored and active, or it sends exactly one response, a 401, and never
\* calls next; it never does both, and when it has finished it has done one
C19_NextOrOne401 ==
    \A r \in RequestIds :
        LET req == requests[r]
            nexts == Len(req.nextCalls)
            answers == Len(req.sent)
        IN  req.handler = "protect" =>
            /\ nexts + answers <= 1
            /\ \A k \in 1..answers : req.sent[k].status = 401
            /\ nexts = 1 => Authentic(req) /\ req.user = users[req.decoded.id]
            /\ req.pc = "done" => nexts + answers = 1
            /\ (req.pc = "done" /\ Authentic(req) /\ req.caught = "") => nexts = 1

\* protect has finished two requests: it let one through that carries a valid
\* token of an active user, and answered 401 to one whose header starts with
\* Bearer and has no token after it
C19_Witness ==
    \E r, q \in RequestIds :
        /\ requests[r].handler = "protect" /\ requests[r].pc = "done"
        /\ Len(requests[r].nextCalls) = 1 /\ Len(requests[r].sent) = 0
        /\ requests[q].handler = "protect" /\ requests[q].pc = "done"
        /\ requests[q].headers = [authorization |-> "Bearer"]
        /\ Len(requests[q].nextCalls) = 0 /\ Len(requests[q].sent) = 1
        /\ requests[q].sent[1].status = 401

-----------------------------------------------------------------------------
(* C21 *)

\* the sum over all phrases of the list, duplicates included, of 3, 2 or 1 for
\* a phrase that resolves to a high, moderate or low entry
RECURSIVE SumOfWeights(_)
SumOfWeights(L) ==
    IF Len(L) = 0 THEN 0
    ELSE Weight(MatchedTier(Head(L))) + SumOfWeights(Tail(L))

\* 1 for a profile with known conditions, and 1 more for an age over 65
ContextAdjustment(hp) ==
    (IF hp # null /\ "knownConditions" \in DOMAIN hp /\ hp.knownConditions # <<>>
     THEN 1 ELSE 0)
    + (IF hp # null /\ "age" \in DOMAIN hp /\ hp.age > 65 THEN 1 ELSE 0)

\* the highest tier among the entries the phrases resolve to, 'low' when no
\* phrase resolves to an entry
HighestMatchedTier(L) ==
    LET tiers == {MatchedTier(L[i]) : i \in 1..Len(L)} \ {"none"} IN
    IF tiers = {} THEN "low"
    ELSE CHOOSE t \in tiers : \A u \in tiers : Rank(u) <= Rank(t)

\* the tier the threshold mapping gives for the score S
ThresholdTier(S, L) ==
    IF S >= 5 THEN "high"
    ELSE IF S >= 3 THEN "moderate"
    ELSE HighestMatchedTier(L)

\* C21: for every non-emergency symptom list and health profile, the severity
\* returned is 'high' if S >= 5, 'moderate' if 3 <= S < 5, and otherwise the
\* highest tier among the matched entries ('low' if nothing matched), where S
\* is the sum of the weights of the phrases plus the context adjustment.
C21_ThresholdMapping ==
    ReturnedNormal =>
        /\ severityScore = SumOfWeights(symptoms) + ContextAdjustment(healthProfile)
        /\ result.severity = ThresholdTier(severityScore, symptoms)

\* the mapping is the one returned for every list none of whose phrases
\* resolves to an entry of tier 'emergency'
ThresholdMappingWithoutEmergencyEntry ==
    (ReturnedNormal /\ \A i \in 1..Len(symptoms) : MatchedTier(symptoms[i]) # "emergency")
    => /\ severityScore = SumOfWeights(symptoms) + ContextAdjustment(healthProfile)
       /\ result.severity = ThresholdTier(severityScore, symptoms)

\* a call returned below 'emergency' with a score under 3 for a list with a
\* phrase that resolves to an entry of tier 'emergency'
EmergencyEntryBelowThreshold ==
    /\ ReturnedNormal
    /\ severityScore < 3
    /\ \E i \in 1..Len(symptoms) : MatchedTier(symptoms[i]) = "emergency"
    /\ result.severity # "emergency"

-----------------------------------------------------------------------------
(* C22: one call of findSymptomData *)

\* the strings that occur in s, the empty one included
Substrings(s) ==
    {""} \cup {SubSeq(s, i, j) : i \in 1..Len(s), j \in 1..Len(s)}

\* the phrases findSymptomData is called with: every string that occurs in a
\* key of the table, phrases that contain one key or several, and phrases
\* that match no key
LookupPhrases ==
    UNION {Substrings(symptomDatabase[k].key) : k \in 1..Len(symptomDatabase)}
    \cup {"high fever", "fever and cough", "cough and fever",
          "nausea and vomiting", "vomiting, then abdominal pain",
          "fatigue with body aches and dizziness", "headache", "rash",
          "severe chest pain and shortness of breath"}

InitLookup ==
    /\ symptoms \in {<<p>> : p \in LookupPhrases}
    /\ healthProfile = null
    /\ pc = "findSymptomData"
    /\ normalizedSymptoms = <<>>
    /\ emergencyDetected = FALSE
    /\ severityScore = -1
    /\ severity = ""
    /\ possibleConditions = <<>>
    /\ recommendations = <<>>
    /\ result = undefined
    /\ response = undefined
    /\ staticTables = [symptomDatabase |-> symptomDatabase,
                       emergencySymptoms |-> emergencySymptoms]
    /\ callArgs = <<>>
    /\ observed = {}
    /\ calls = 1
    /\ NoRequests
    /\ NoChatPage

\* MedicalAIService.findSymptomData(symptom)
FindSymptomData ==
    /\ pc = "findSymptomData"
    /\ result' = findSymptomData(symptoms[1])
    /\ pc' = "found"
    /\ UNCHANGED <<callVars, handlerVars, pageVars, response, symptoms, healthProfile,
                   normalizedSymptoms, emergencyDetected, severityScore,
                   severity, possibleConditions, recommendations>>

NextLookup == FindSymptomData

SpecLookup == InitLookup /\ [][NextLookup]_vars

\* the places in the declaration order of the entries that qualify for the
\* phrase: the key occurs in the phrase, or the phrase occurs in the key
Qualifying(phrase) ==
    {k \in 1..Len(symptomDatabase) :
        \/ \E i \in 1..(Len(phrase) - Len(symptomDatabase[k].key) + 1) :
              SubSeq(phrase, i, i + Len(symptomDatabase[k].key) - 1)
                  = symptomDatabase[k].key
        \/ phrase \in Substrings(symptomDatabase[k].key)}

\* C22: findSymptomData returns the first entry, in the order the entries are
\* declared, whose key is a substring of the phrase or contains the phrase,
\* and null when no entry qualifies; 'pain' qualifies for 'chest pain' and
\* 'abdominal pain' and resolves to 'chest pain'
C22_FirstMatchWins ==
    pc = "found" =>
        LET qualifying == Qualifying(symptoms[1]) IN
        /\ qualifying = {} => result = null
        /\ qualifying # {} =>
              /\ result # null
              /\ \E k \in qualifying :
                    /\ \A j \in qualifying : k <= j
                    /\ result = symptomDatabase[k]
        /\ symptoms[1] = "pain" =>
              /\ Cardinality(qualifying) = 2
              /\ result.key = "chest pain"

\* 'pain' was looked up: it qualifies for the 1st and the 11th entry, and the
\* 1st was returned
C22_Witness ==
    /\ pc = "found"
    /\ symptoms[1] = "pain"
    /\ Qualifying("pain") = {1, 11}
    /\ result = symptomDatabase[1]

-----------------------------------------------------------------------------
(* C23, C24 *)

\* the strings of a list
StringsOf(block) == {block[k] : k \in 1..Len(block)}

\* the severity block of a tier
TierBlock(tier) ==
    CASE tier = "high" -> HighBlock
      [] tier = "moderate" -> ModerateBlock
      [] tier = "low" -> LowBlock

\* the blocks a call triggers beside the severity block, each with its place
\* in the fixed order
Triggered(L, hp) ==
    (IF SomePhraseContains(L, "fever") THEN {<<2, FeverBlock>>} ELSE {})
    \cup (IF SomePhraseContains(L, "cough") THEN {<<3, CoughBlock>>} ELSE {})
    \cup (IF hp # null /\ "knownConditions" \in DOMAIN hp /\ hp.knownConditions # <<>>
          THEN {<<4, KnownConditionsBlock>>} ELSE {})
    \cup (IF hp # null /\ "currentMedications" \in DOMAIN hp /\ hp.currentMedications # <<>>
          THEN {<<5, MedicationsBlock>>} ELSE {})

\* the blocks of the set, one after the other by their places from n on
RECURSIVE InOrder(_, _)
InOrder(blocks, n) ==
    IF n > 5 THEN <<>>
    ELSE (IF \E b \in blocks : b[1] = n
          THEN (CHOOSE b \in blocks : b[1] = n)[2] ELSE <<>>)
         \o InOrder(blocks, n + 1)

\* C23: for every non-emergency input, the recommendation list is the
\* severity block, then the fever block if triggered, then the cough block if
\* triggered, then the known-conditions block if triggered, then the
\* medications block if triggered, with no other strings
C23_BlocksInFixedOrder ==
    ReturnedNormal =>
        result.recommendations =
            TierBlock(result.severity)
            \o InOrder(Triggered(normalizedSymptoms, healthProfile), 2)

\* a call returned a list of all five blocks
C23_Witness ==
    /\ ReturnedNormal
    /\ Cardinality(Triggered(normalizedSymptoms, healthProfile)) = 4
    /\ Len(result.recommendations) = Len(TierBlock(result.severity)) + 10

\* C24 as stated: the severity block has exactly 3 fixed strings for each of
\* the tiers high, moderate and low, so every non-emergency recommendation
\* list starts with 3 tier-specific strings
C24_ThreeStringsPerTier ==
    ReturnedNormal =>
        /\ Len(TierBlock(result.severity)) = 3
        /\ Len(result.recommendations) >= 3
        /\ SubSeq(result.recommendations, 1, 3) = TierBlock(result.severity)

\* C24 as amended: the severity block has 3 fixed strings for the tier high
\* and 2 for each of the tiers moderate and low; every non-emergency
\* recommendation list starts with the block of its tier, and the strings of
\* a block occur in no other block
C24_ThreeOrTwoStringsPerTier ==
    ReturnedNormal =>
        LET tier == result.severity
            size == IF tier = "high" THEN 3 ELSE 2
        IN  /\ tier \in {"high", "moderate", "low"}
            /\ Len(TierBlock(tier)) = size
            /\ Len(result.recommendations) >= size
            /\ SubSeq(result.recommendations, 1, size) = TierBlock(tier)
            /\ \A k \in (size + 1)..Len(result.recommendations) :
                  result.recommendations[k] \notin
                      StringsOf(HighBlock) \cup StringsOf(ModerateBlock)
                      \cup StringsOf(LowBlock)
            /\ \A other \in {"high", "moderate", "low"} \ {tier} :
                  StringsOf(TierBlock(other)) \cap StringsOf(TierBlock(tier)) = {}

\* a call returned 'moderate' with a fever block: its third string is the
\* first string of the fever block
C24_Witness ==
    /\ ReturnedNormal
    /\ result.severity = "moderate"
    /\ Len(result.recommendations) >= 3
    /\ result.recommendations[3] = FeverBlock[1]

-----------------------------------------------------------------------------
(* C25 *)

\* the stored profiles whose user field is u, in the given collection
ProfilesOf(collection, u) ==
    {p \in ProfileIds : collection[p].type = "object" /\ collection[p].user = u}

\* the user a createProfile request stores its profile for
TargetUser(req) ==
    IF "user" \in DOMAIN req.body THEN req.body.user ELSE req.user.id

\* C25: at most one health profile exists per user in every state; a
\* createProfile for a requester who has a profile answers 400 at its
\* existence check and leaves the profiles unchanged; and a createProfile
\* that passed the check stores one profile when its user has none and
\* otherwise (another request has stored one since) receives an error
\* response, status 400 with success false, and leaves the profiles unchanged
C25_AtMostOneProfilePerUser ==
    [][/\ \A u \in UserIds : Cardinality(ProfilesOf(profiles, u)) <= 1
       /\ \A u \in UserIds : Cardinality(ProfilesOf(profiles', u)) <= 1
       /\ \A r \in RequestIds :
             LET req == requests[r]
                 after == requests'[r]
             IN  /\ ( /\ req.handler = "createProfile" /\ req.pc = "start"
                      /\ after.number = req.number /\ after.pc # "start" )
                    => IF ProfilesOf(profiles, req.user.id) # {}
                       THEN /\ profiles' = profiles
                            /\ after.pc = "done"
                            /\ Len(after.sent) = 1
                            /\ after.sent[1].status = 400
                            /\ ~after.sent[1].body.success
                       ELSE /\ profiles' = profiles
                            /\ after.pc = "create"
                            /\ Len(after.sent) = 0
                 /\ ( /\ req.handler = "createProfile" /\ req.pc = "create"
                      /\ after.number = req.number /\ after.pc # "create" )
                    => /\ after.pc = "done"
                       /\ Len(after.sent) = 1
                       /\ IF ProfilesOf(profiles, TargetUser(req)) # {}
                          THEN /\ profiles' = profiles
                               /\ after.sent[1].status = 400
                               /\ ~after.sent[1].body.success
                          ELSE /\ after.sent[1].status = 201
                               /\ Cardinality(ProfilesOf(profiles', TargetUser(req))) = 1
                               /\ \E p \in ProfileIds :
                                     /\ profiles[p] = null
                                     /\ profiles' = [profiles EXCEPT ![p] = profiles'[p]]
      ]_vars

\* two createProfile requests of one requester for that requester both passed
\* the existence check; one stored the profile and was answered 201, the
\* other was answered 400 for the duplicate key, and the requester has one
\* profile
C25_Witness ==
    \E r, q \in RequestIds :
        /\ r # q
        /\ requests[r].handler = "createProfile"
        /\ requests[q].handler = "createProfile"
        /\ requests[r].user.id = requests[q].user.id
        /\ TargetUser(requests[r]) = requests[r].user.id
        /\ TargetUser(requests[q]) = requests[q].user.id
        /\ requests[r].pc = "done" /\ requests[q].pc = "done"
        /\ Len(requests[r].sent) = 1 /\ requests[r].sent[1].status = 201
        /\ Len(requests[q].sent) = 1 /\ requests[q].sent[1].status = 400
        /\ requests[q].caught = "duplicate key"
        /\ Cardinality(ProfilesOf(profiles, requests[r].user.id)) = 1

-----------------------------------------------------------------------------
(* C26 *)

\* the sessions as they are stored before the request of SpecChat
SessionsBefore ==
    [id \in SessionIds |-> IF id = "s1" THEN openedSession("s1", "u1") ELSE null]

\* the request appended no message and modified no summary field (the
\* stored sessions are as before), wrote nothing and called no hosted model
\* and no local backup
ChangedNothing(r) ==
    /\ sessions = SessionsBefore
    /\ {w \in writes : w.request = r} = {}
    /\ requests[r].tiers = <<>>

\* the requester has no stored session of the id in the request
NoSuchSession(req) ==
    \A id \in SessionIds :
        (sessions[id].type = "object" /\ sessions[id].user = req.user.id)
            => id # req.params.sessionId

\* the answers of the request are this one status, with success false
AnsweredOnly(req, status) ==
    /\ Len(req.sent) = 1
    /\ req.sent[1].status = status
    /\ ~req.sent[1].body.success

\* C26: a sendMessage request whose message is missing, empty or
\* whitespace-only is answered 400, and one (with a message) whose session id
\* does not exist or belongs to another user is answered 404; in both cases
\* no message is appended to any session, no hosted model is called and no
\* session summary field is modified
C26_RejectedAnswered400Or404 ==
    \A r \in RequestIds :
        LET req == requests[r] IN
        (req.handler = "sendMessage" /\ req.pc = "done") =>
            /\ isBlankMessage(messageOf(req))
                  => AnsweredOnly(req, 400) /\ ChangedNothing(r)
            /\ (~isBlankMessage(messageOf(req)) /\ NoSuchSession(req))
                  => AnsweredOnly(req, 404) /\ ChangedNothing(r)

\* what holds: a blank message is answered 400; with a message, an id that
\* is no ObjectId is answered 500 and an ObjectId of no session of the
\* requester 404; and none of these requests changes anything
RejectedChangesNothing ==
    \A r \in RequestIds :
        LET req == requests[r] IN
        (req.handler = "sendMessage" /\ req.pc = "done") =>
            /\ isBlankMessage(messageOf(req))
                  => AnsweredOnly(req, 400) /\ ChangedNothing(r)
            /\ (~isBlankMessage(messageOf(req)) /\ NoSuchSession(req))
                  => /\ AnsweredOnly(req, IF castsToObjectId(req.params.sessionId)
                                          THEN 404 ELSE 500)
                     /\ ChangedNothing(r)

\* a request with a message and the session id 'abc' was answered 500
MalformedIdAnswered500 ==
    \E r \in RequestIds :
        /\ requests[r].handler = "sendMessage"
        /\ requests[r].pc = "done"
        /\ requests[r].params.sessionId = "abc"
        /\ ~isBlankMessage(messageOf(requests[r]))
        /\ requests[r].caught = "CastError"
        /\ AnsweredOnly(requests[r], 500)

-----------------------------------------------------------------------------
(* C27 *)

\* the list before is the beginning of the list after
IsPrefix(before, after) ==
    /\ Len(before) <= Len(after)
    /\ SubSeq(after, 1, Len(before)) = before

\* a step leaves the messages of every stored session in place: a session
\* that stays stored keeps its messages, in their order, as the beginning of
\* its list
MessagesKept ==
    \A id \in SessionIds :
        (sessions[id].type = "object" /\ sessions'[id].type = "object")
            => IsPrefix(sessions[id].messages, sessions'[id].messages)

\* the messages of the stored sessions are not changed by the step
MessagesUnchanged ==
    \A id \in SessionIds :
        (sessions[id].type = "object" /\ sessions'[id].type = "object")
            => sessions'[id].messages = sessions[id].messages

\* what the steps of a sendMessage request append: its first push is the
\* user's message, its second the assistant's reply, each as the new last
\* message of its session; its other steps append nothing; and it answers
\* success only after both
TwoMessagesPerSendMessage ==
    \A r \in RequestIds :
        LET req == requests[r]
            after == requests'[r]
        IN  (req.handler = "sendMessage" /\ after # req /\ after.number = req.number) =>
            /\ (req.pc = "addUserMessage" /\ after.pc = "findProfile")
                  => /\ sessions[req.session.id].type = "object"
                     /\ sessions' = [sessions EXCEPT ![req.session.id] = sessions'[req.session.id]]
                     /\ LET old == sessions[req.session.id].messages
                            new == sessions'[req.session.id].messages
                        IN  /\ Len(new) = Len(old) + 1
                            /\ IsPrefix(old, new)
                            /\ new[Len(new)].role = "user"
                            /\ new[Len(new)].content = req.body.message
            /\ (req.pc = "addAssistantMessage" /\ after.pc = "saveSummary")
                  => /\ sessions[req.session.id].type = "object"
                     /\ sessions' = [sessions EXCEPT ![req.session.id] = sessions'[req.session.id]]
                     /\ LET old == sessions[req.session.id].messages
                            new == sessions'[req.session.id].messages
                        IN  /\ Len(new) = Len(old) + 1
                            /\ IsPrefix(old, new)
                            /\ new[Len(new)].role = "assistant"
                            /\ new[Len(new)].content = req.aiResponse.value
                            /\ \E k \in 1..Len(old) :
                                  /\ old[k].role = "user"
                                  /\ old[k].content = req.body.message
            /\ ( /\ ~(req.pc = "addUserMessage" /\ after.pc = "findProfile")
                 /\ ~(req.pc = "addAssistantMessage" /\ after.pc = "saveSummary") )
                  => MessagesUnchanged
            /\ after.pc = "saveSummary" => req.pc = "addAssistantMessage"
            /\ after.pc = "addAssistantMessage"
                  => req.pc \in {"callFirst", "callSecond", "localBackup"}
            /\ (after.pc = "done" /\ Len(after.sent) = 1 /\ after.sent[1].status = 200)
                  => req.pc = "saveSummary"

\* the first message of every stored session that has messages is the system
\* welcome message
WelcomeFirst ==
    \A id \in SessionIds :
        (sessions[id].type = "object" /\ Len(sessions[id].messages) >= 1)
            => /\ sessions[id].messages[1].role = "system"
               /\ sessions[id].messages[1].content = welcomeMessage

\* C27: every sendMessage that answers success appends exactly two messages
\* to the session, the user's message first and the assistant's reply
\* second; no step removes or reorders messages already stored (deleteSession
\* removes the session); and the first message of every session is the
\* system welcome message
C27_AppendOnlyWelcomeFirst ==
    [][MessagesKept /\ TwoMessagesPerSendMessage /\ WelcomeFirst /\ WelcomeFirst']_vars

\* what holds: the history is append-only and a sendMessage appends its two
\* messages in order
AppendOnlyTwoPerSendMessage ==
    [][MessagesKept /\ TwoMessagesPerSendMessage]_vars

\* a stored session whose first message is a user's message: a sendMessage
\* was served between the create of createSession and its addMessage
UserMessageBeforeWelcome ==
    \E id \in SessionIds :
        /\ sessions[id].type = "object"
        /\ Len(sessions[id].messages) >= 2
        /\ sessions[id].messages[1].role = "user"
        /\ \E k \in 2..Len(sessions[id].messages) :
              sessions[id].messages[k].role = "system"

-----------------------------------------------------------------------------
(* One conversation: sendMessage and completeSession requests of the owner
   on one session, two at a time *)

\* the requests on the session s1 of the user u1
SessionRequests ==
    {request("sendMessage", "u1", "s1", [message |-> m]) :
        m \in {"I have Chest Pain since morning", "mild headache and fever"}}
    \cup {request("completeSession", "u1", "s1", <<>>)}

\* a request on the session arrives in a free slot
ReceiveOnSession(r) ==
    /\ requests[r].pc \in {"idle", "done"}
    /\ Received < MaxRequests
    /\ \E req \in SessionRequests :
          requests' = [requests EXCEPT ![r] =
              [req EXCEPT !.number = requests[r].number + 1]]
    /\ UNCHANGED <<serviceVars, env, pageVars, users, sessions, profiles, writes>>

InitSession ==
    /\ NoCall
    /\ NoChatPage
    /\ env = <<>>
    /\ users = allActive
    /\ sessions = [id \in SessionIds |->
                      IF id = "s1" THEN openedSession("s1", "u1") ELSE null]
    /\ profiles = [id \in ProfileIds |-> null]
    /\ requests = [r \in RequestIds |-> idleRequest]
    /\ writes = {}

NextSession ==
    \E r \in RequestIds :
        \/ ReceiveOnSession(r)
        \/ SendMessageFind(r)
        \/ SendMessageAddUser(r)
        \/ SendMessageFindProfile(r)
        \/ CallFirst(r)
        \/ CallSecond(r)
        \/ LocalBackup(r)
        \/ SendMessageAddAssistant(r)
        \/ SendMessageSave(r)
        \/ CompleteSessionFind(r)
        \/ CompleteSessionSave(r)

SpecSession == InitSession /\ [][NextSession]_vars

-----------------------------------------------------------------------------
(* C28 *)

\* C28: in every state reachable by sendMessage and completeSession requests
\* on a session, if summary.emergencyFlagged is true then
\* summary.overallSeverity is 'emergency'
C28_FlaggedImpliesEmergency ==
    \A id \in SessionIds :
        (sessions[id].type = "object" /\ sessions[id].summary.emergencyFlagged)
            => /\ "overallSeverity" \in DOMAIN sessions[id].summary
               /\ sessions[id].summary.overallSeverity = "emergency"

\* what holds: a flagged session has a message whose recorded severity is
\* 'emergency', and its overallSeverity is set
FlaggedHasEmergencyMessage ==
    \A id \in SessionIds :
        (sessions[id].type = "object" /\ sessions[id].summary.emergencyFlagged)
            => /\ "overallSeverity" \in DOMAIN sessions[id].summary
               /\ "emergency" \in severitiesOf(sessions[id].messages)

\* two sendMessage requests were served one after the other, no request
\* overlapping another: the session is flagged and its overallSeverity is
\* not 'emergency'
FlaggedWithLaterSeverity ==
    /\ requests["r2"].pc = "idle"
    /\ requests["r1"].pc = "done"
    /\ requests["r1"].number = 2
    /\ requests["r1"].handler = "sendMessage"
    /\ sessions["s1"].summary.emergencyFlagged
    /\ sessions["s1"].summary.overallSeverity # "emergency"

-----------------------------------------------------------------------------
(* C29 *)

severityRank(level) ==
    CASE level = "low" -> 1
      [] level = "moderate" -> 2
      [] level = "high" -> 3
      [] level = "emergency" -> 4

\* the maximum of the severities recorded in the messages, 'low' when none
\* is recorded
MaxRecordedSeverity(messages) ==
    LET recorded == severitiesOf(messages) IN
    IF recorded = {} THEN "low"
    ELSE CHOOSE s \in recorded :
            \A t \in recorded : severityRank(t) <= severityRank(s)

\* the identified symptoms of the messages
IdentifiedSymptoms(messages) ==
    UNION {{messages[k].metadata.identifiedSymptoms[i] :
                i \in 1..Len(messages[k].metadata.identifiedSymptoms)} :
            k \in {j \in 1..Len(messages) :
                      "identifiedSymptoms" \in DOMAIN messages[j].metadata}}

\* reported holds each of the symptoms exactly once, and nothing else
HoldsEachOnce(reported, identified) ==
    /\ {reported[i].symptom : i \in 1..Len(reported)} = identified
    /\ Len(reported) = Cardinality(identified)

\* the summary and status of the document are those of the messages
SummarizedFrom(doc, messages) ==
    /\ "overallSeverity" \in DOMAIN doc.summary
    /\ doc.summary.overallSeverity = MaxRecordedSeverity(messages)
    /\ HoldsEachOnce(doc.summary.reportedSymptoms, IdentifiedSymptoms(messages))
    /\ doc.status = "completed"

\* the step in which request r's session.completeSession() succeeds
Completes(r) ==
    /\ requests[r].handler = "completeSession"
    /\ requests[r].pc = "complete"
    /\ requests'[r].pc = "done"
    /\ requests'[r].caught = ""

CompletedSummaryOfStoredMessages ==
    [][\A r \in RequestIds :
          Completes(r) =>
              LET stored == sessions'[requests'[r].session.id] IN
              SummarizedFrom(stored, stored.messages)]_vars

-----------------------------------------------------------------------------
(* The Chat page (frontend): createNewSession, sendMessage and the          *)
(* 'Start New Conversation' button.  A call of chatAPI stays pending until  *)
(* the server's answer arrives; meanwhile the page handles other events.    *)

\* the most conversations started and messages sent in one behaviour
MaxConversations == 3
MaxMessages == 2

\* the _id of the n-th session the server creates
chatSessionId(n) == "c" \o ToString(n)

\* what the user types or picks from the example questions
ChatInputs == {"I have chest pain", " I feel dizzy and nauseous ", "  "}

\* useState(null), useState([]), useState(''), useState(false), useState(false)
initialChatPage ==
    [sessionId |-> null, messages |-> <<>>, inputMessage |-> "",
     loading |-> FALSE, sending |-> FALSE]

\* a message of the list; session is not a field of the object in the code:
\* it records the session the message was written in
shownMessage(role, content, session) ==
    [role |-> role, content |-> content, session |-> session]

\* the calls of api made so far
CallsOf(api) == {i \in 1..Len(apiCalls) : apiCalls[i].api = api}

Pending(api) == {i \in CallsOf(api) : apiCalls[i].state = "pending"}

\* createNewSession up to its await: setLoading(true) and the call of
\* chatAPI.createSession
createNewSessionCalled(page) == [page EXCEPT !.loading = TRUE]

createSessionCall ==
    [api |-> "createSession", sessionId |-> "", message |-> "", state |-> "pending"]

\* the page after it was mounted: useEffect(() => { createNewSession(); }, [])
InitChatPage ==
    /\ NoCall
    /\ env = <<>>
    /\ users = <<>>
    /\ sessions = <<>>
    /\ profiles = <<>>
    /\ requests = <<>>
    /\ writes = {}
    /\ chatPage = createNewSessionCalled(initialChatPage)
    /\ apiCalls = <<createSessionCall>>

\* onChange of the textarea, onClick of an example question: the page shows
\* them when it is not loading
ChatSetInputMessage(text) ==
    /\ ~chatPage.loading
    /\ chatPage' = [chatPage EXCEPT !.inputMessage = text]
    /\ UNCHANGED <<serviceVars, handlerVars, apiCalls>>

\* onClick of Send, which is enabled with a non-blank input, not sending and
\* a session: sendMessage up to its await
ChatSendMessage ==
    /\ ~chatPage.loading
    /\ ~chatPage.sending
    /\ trim(chatPage.inputMessage) /= ""
    /\ chatPage.sessionId /= null
    /\ Cardinality(CallsOf("sendMessage")) < MaxMessages
    /\ LET userMessage == trim(chatPage.inputMessage)
           session == chatPage.sessionId.value
       IN  /\ chatPage' = [chatPage EXCEPT
                  !.inputMessage = "",
                  !.sending = TRUE,
                  !.messages = Append(@, shownMessage("user", userMessage, session))]
           /\ apiCalls' = Append(apiCalls,
                  [api |-> "sendMessage", sessionId |-> session,
                   message |-> userMessage, state |-> "pending"])
    /\ UNCHANGED <<serviceVars, handlerVars>>

\* the answer of the server arrives with success: the assistant message is
\* appended to the list; finally setSending(false)
ChatSendMessageResolved ==
    \E i \in Pending("sendMessage") :
        /\ chatPage' = [chatPage EXCEPT
               !.messages = Append(@, shownMessage("assistant",
                                generateSmartLocalResponse(apiCalls[i].message),
                                apiCalls[i].sessionId)),
               !.sending = FALSE]
        /\ apiCalls' = [apiCalls EXCEPT ![i].state = "resolved"]
        /\ UNCHANGED <<serviceVars, handlerVars>>

\* the call is rejected: the catch appends the error message; finally
\* setSending(false)
ChatSendMessageRejected ==
    \E i \in Pending("sendMessage") :
        /\ chatPage' = [chatPage EXCEPT
               !.messages = Append(@, shownMessage("system",
                                "Sorry, I encountered an error. Please try again.",
                                apiCalls[i].sessionId)),
               !.sending = FALSE]
        /\ apiCalls' = [apiCalls EXCEPT ![i].state = "rejected"]
        /\ UNCHANGED <<serviceVars, handlerVars>>

\* onClick of 'Start New Conversation', which the page shows when it is not
\* loading: createNewSession up to its await
ChatStartNewConversation ==
    /\ ~chatPage.loading
    /\ Cardinality(CallsOf("createSession")) < MaxConversations
    /\ chatPage' = createNewSessionCalled(chatPage)
    /\ apiCalls' = Append(apiCalls, createSessionCall)
    /\ UNCHANGED <<serviceVars, handlerVars>>

\* the answer of createSession arrives with success: setSessionId,
\* setMessages(response.data.session.messages || []); finally
\* setLoading(false).  The server has created a session of its own _id that
\* holds the welcome message.
ChatCreateSessionResolved ==
    \E i \in Pending("createSession") :
        LET created == {j \in CallsOf("createSession") : apiCalls[j].state = "resolved"}
            id == chatSessionId(Cardinality(created) + 1)
        IN  /\ chatPage' = [chatPage EXCEPT
                   !.sessionId = string(id),
                   !.messages = <<shownMessage("system", welcomeMessage, id)>>,
                   !.loading = FALSE]
            /\ apiCalls' = [apiCalls EXCEPT ![i].state = "resolved",
                                            ![i].sessionId = id]
            /\ UNCHANGED <<serviceVars, handlerVars>>

\* the call of createSession is rejected: the catch reports it; finally
\* setLoading(false)
ChatCreateSessionRejected ==
    \E i \in Pending("createSession") :
        /\ chatPage' = [chatPage EXCEPT !.loading = FALSE]
        /\ apiCalls' = [apiCalls EXCEPT ![i].state = "rejected"]
        /\ UNCHANGED <<serviceVars, handlerVars>>

NextChatPage ==
    \/ \E text \in ChatInputs : ChatSetInputMessage(text)
    \/ ChatSendMessage
    \/ ChatSendMessageResolved
    \/ ChatSendMessageRejected
    \/ ChatStartNewConversation
    \/ ChatCreateSessionResolved
    \/ ChatCreateSessionRejected

SpecChatPage == InitChatPage /\ [][NextChatPage]_vars

-----------------------------------------------------------------------------
(* C30 *)

\* the assistant and error messages of the list
Replies ==
    {i \in 1..Len(chatPage.messages) :
        chatPage.messages[i].role \in {"assistant", "system"}}

\* C30: in the Chat page every assistant or error message shown in the
\* message list belongs to the session held in sessionId: a reply to a
\* message sent in an earlier session is never appended to the message list
\* of a later session
C30_RepliesBelongToCurrentSession ==
    \A i \in Replies : chatPage.sessionId = string(chatPage.messages[i].session)

\* what holds: a reply is appended for the session its message was sent in,
\* a message of another session than the current one is a reply, and it is
\* behind the welcome message of the current session
RepliesBelongToSessionOfTheirCall ==
    /\ \A i \in 1..Len(chatPage.messages) :
          chatPage.sessionId /= string(chatPage.messages[i].session)
              => /\ i \in Replies
                 /\ i > 1
                 /\ \E j \in CallsOf("sendMessage") :
                       /\ apiCalls[j].sessionId = chatPage.messages[i].session
                       /\ apiCalls[j].state /= "pending"
    /\ \A j \in Pending("sendMessage") : chatPage.sending

\* the reply to a message sent in session c1 is shown in the list of
\* session c2, behind the welcome message of c2
ReplyShownInLaterSession ==
    /\ chatPage.sessionId = string("c2")
    /\ Len(chatPage.messages) = 2
    /\ chatPage.messages[1].role = "system"
    /\ chatPage.messages[1].session = "c2"
    /\ chatPage.messages[2].role = "assistant"
    /\ chatPage.messages[2].session = "c1"

=============================================================================
